---- MODULE Spec2Model ----
(***************************************************************************)
(* Control-plane service of the NVMe-oF gateway (control/grpc.py,          *)
(* class GatewayService).  Worker threads run facade operations step by    *)
(* step; every engine (SPDK) RPC, every read and write of the persisted    *)
(* record (GatewayState) and every lock acquisition is one step.           *)
(***************************************************************************)
EXTENDS Integers, Sequences, FiniteSets, TLC

VARIABLES
    pc,              \* pc[t]: position of worker t inside its operation
    fr,              \* fr[t]: request and local variables of worker t
    rpc_lock,        \* self.rpc_lock: NoThread or the worker holding it
    omap_lock,       \* self.omap_lock: [owner, depth]
    eng,             \* state of the local storage engine (SPDK)
    omap,            \* the persisted record (GatewayState)
    clusters,        \* self.clusters: context index -> number of bdevs
    current_cluster, \* self.current_cluster: NoCluster or a context index
    alloc_failed,    \* history: a call of _alloc_cluster has raised
    nops,            \* operations started so far
    nfaults,         \* engine / store failures injected so far
    ev               \* the last step taken (what happened, who, which locks)

vars == <<pc, fr, rpc_lock, omap_lock, eng, omap, clusters, current_cluster,
          alloc_failed,
          nops, nfaults, ev>>

----------------------------------------------------------------------------
\* Bounds of the model.
MaxOps == 3
MaxFaults == 1

\* Status codes (errno) and program constants.
EINVAL == 22
EEXIST == 17
EBUSY == 16
ENODEV == 19
ENOENT == 2
ENOKEY == 126
MAX_ANA_GROUPS == 4
\* spdk.bdevs_per_cluster, a configuration value (default 8, at least 1):
\* small here, so that a cluster context fills up.
bdevs_per_cluster == 2
min_cntlid == 1
max_cntlid == 65519

\* Codes an engine error may carry (JSON-RPC error object).
EngInvalidParams == -32602
EngNoDevice == -19

Threads == {"w1", "w2"}
NoThread == "none"
NoCluster == -1

DISCOVERY_NQN == "discovery"
SubNqns == {"nqn1", "nqn2"}
ReqNqns == SubNqns \cup {DISCOVERY_NQN}
UserSerials == {"SPDK2"}
RandomSerials == {"SPDK2", "SPDK3"}
UserUuids == {"u1"}
RandomUuids == <<"r1", "r2", "r3", "r4", "r5">>
NoBdev == <<>>
HostNqns == {"*", "host1"}
GatewayName == "gw1"
GatewayNames == {"gw1", "gw2"}
Addrs == {"a1"}
MaxNsid == 2
QosFields == {"rw_ios_per_second", "rw_mbytes_per_second",
              "r_mbytes_per_second", "w_mbytes_per_second"}

----------------------------------------------------------------------------
\* Engine errors.  An engine call raises an exception, returns a falsy
\* result, or succeeds.
NoResp == [code |-> 0, none |-> TRUE, raised |-> FALSE]

\* `rsp = None` leaves `resp` unbound: when no response was parsed out of a
\* JSONRPCException, `if resp:` raises UnboundLocalError inside the handler.
UnboundResp == [code |-> 0, none |-> TRUE, raised |-> TRUE]

\* The call ended with that exception escaping: no status was returned.
Unhandled == -2

Exceptions ==
    { [cls |-> "JSONRPCException", marker |-> TRUE,  code |-> EngNoDevice],
      [cls |-> "JSONRPCException", marker |-> FALSE, code |-> 0],
      [cls |-> "Exception",        marker |-> FALSE, code |-> 0] }

NaturalError(c) == [cls |-> "JSONRPCException", marker |-> TRUE, code |-> c]

parse_json_exeption(ex) ==
    IF ex.cls # "JSONRPCException" THEN NoResp
    ELSE IF ~ex.marker THEN UnboundResp
    ELSE [code |-> IF ex.code < 0 THEN -ex.code ELSE ex.code,
          none |-> FALSE, raised |-> FALSE]

\* status = errno.EINVAL; resp = self.parse_json_exeption(ex);
\* if resp: status = resp["code"]
ExceptionStatus(ex, dflt) ==
    LET resp == parse_json_exeption(ex)
    IN  IF resp.raised THEN Unhandled
        ELSE IF resp.none THEN dflt ELSE resp.code

OkOutcome == [res |-> "ok", ex |-> NaturalError(0)]
FalsyOutcome == [res |-> "falsy", ex |-> NaturalError(0)]
RaiseOutcome(ex) == [res |-> "exc", ex |-> ex]

InjectedOutcomes == {FalsyOutcome} \cup {RaiseOutcome(ex) : ex \in Exceptions}

\* What an engine call whose natural precondition is `pre` can answer.
Outcomes(pre, natcode) ==
    IF ~pre THEN {RaiseOutcome(NaturalError(natcode))}
    ELSE {OkOutcome} \cup (IF nfaults < MaxFaults THEN InjectedOutcomes ELSE {})

\* Status of a failed call: the code of the raised error, EINVAL when falsy.
FailStatus(out) ==
    IF out.res = "exc" THEN ExceptionStatus(out.ex, EINVAL) ELSE EINVAL

\* Where a *_safe body goes on after a failed helper: the helper returned a
\* status and the body continues at `next`, or the helper's handler raised
\* and the exception leaves the body through its `with` blocks.
HandlerExit(status, next) == IF status = Unhandled THEN "omap_out" ELSE next

Injected(out) == out.res = "falsy" \/ (out.res = "exc" /\ out.ex \in Exceptions)

----------------------------------------------------------------------------
\* The engine.  eng = [subsys, ns, bdevs, hosts, anyhost, lsnr, ana, regs].
EmptyEngine ==
    [subsys |-> {}, ns |-> {}, bdevs |-> {}, hosts |-> {}, anyhost |-> {},
     lsnr |-> {}, ana |-> {}, regs |-> {}]

EngHasSubsys(e, nqn) == \E s \in e.subsys : s.nqn = nqn

EngCreateSubsystem(e, nqn, serial) ==
    [e EXCEPT !.subsys = @ \cup {[nqn |-> nqn, serial |-> serial]}]

EngDeleteSubsystem(e, nqn) ==
    [e EXCEPT !.subsys  = {s \in @ : s.nqn # nqn},
              !.ns      = {n \in @ : n.nqn # nqn},
              !.hosts   = {h \in @ : h[1] # nqn},
              !.anyhost = @ \ {nqn},
              !.lsnr    = {l \in @ : l.nqn # nqn},
              !.ana     = {a \in @ : a.nqn # nqn}]

EngBdevNames(e) == {b.name : b \in e.bdevs}

EngCreateBdev(e, name, cluster) ==
    [e EXCEPT !.bdevs = @ \cup {[name |-> name, cluster |-> cluster]}]

\* Deleting a device hot-removes the namespace that sits on it.
EngDeleteBdev(e, name) ==
    [e EXCEPT !.bdevs = {b \in @ : b.name # name},
              !.ns    = {n \in @ : n.bdev # name}]

EngNsids(e, nqn) == {n.nsid : n \in {m \in e.ns : m.nqn = nqn}}

EngFreeNsid(e, nqn) ==
    IF (1 .. MaxNsid) \ EngNsids(e, nqn) = {} THEN 0
    ELSE CHOOSE i \in (1 .. MaxNsid) \ EngNsids(e, nqn) :
             \A j \in (1 .. MaxNsid) \ EngNsids(e, nqn) : i <= j

\* The NSID the engine gives: the requested one, or the lowest free one.
EngAssignNsid(e, nqn, nsid) == IF nsid = 0 THEN EngFreeNsid(e, nqn) ELSE nsid

EngCanAddNs(e, nqn, bdev, nsid) ==
    /\ EngHasSubsys(e, nqn)
    /\ bdev \in EngBdevNames(e)
    /\ \A n \in e.ns : n.bdev # bdev
    /\ EngAssignNsid(e, nqn, nsid) \in (1 .. MaxNsid) \ EngNsids(e, nqn)

EngAddNs(e, nqn, bdev, nsid, grp, uuid) ==
    [e EXCEPT !.ns = @ \cup {[nqn |-> nqn, nsid |-> EngAssignNsid(e, nqn, nsid),
                              uuid |-> uuid, bdev |-> bdev, grp |-> grp]}]

EngHasNs(e, nqn, nsid) == \E n \in e.ns : n.nqn = nqn /\ n.nsid = nsid

EngRemoveNs(e, nqn, nsid) ==
    [e EXCEPT !.ns = {n \in @ : ~(n.nqn = nqn /\ n.nsid = nsid)}]

\* nvmf_get_subsystems(nqn): the namespaces listed for the subsystem.
EngGetNamespaces(e, nqn) == {n \in e.ns : n.nqn = nqn}


EngAddHost(e, nqn, host) == [e EXCEPT !.hosts = @ \cup {<<nqn, host>>}]
EngRemoveHost(e, nqn, host) == [e EXCEPT !.hosts = @ \ {<<nqn, host>>}]

\* nvmf_subsystem_allow_any_host(nqn, disable)
EngAllowAnyHost(e, nqn, disable) ==
    [e EXCEPT !.anyhost = IF disable THEN @ \ {nqn} ELSE @ \cup {nqn}]

EngListener(nqn, addr) == [nqn |-> nqn, addr |-> addr]
EngAddListener(e, nqn, addr) == [e EXCEPT !.lsnr = @ \cup {EngListener(nqn, addr)}]
EngRemoveListener(e, nqn, addr) ==
    [e EXCEPT !.lsnr = @ \ {EngListener(nqn, addr)},
              !.ana  = {a \in @ : ~(a.nqn = nqn /\ a.addr = addr)}]

\* nvmf_subsystem_listener_set_ana_state(..., ana_state="inaccessible", anagrpid)
EngSetAnaState(e, nqn, addr, grp) ==
    [e EXCEPT !.ana = @ \cup {[nqn |-> nqn, addr |-> addr, grp |-> grp]}]

\* bdev_rbd_register_cluster(name)
EngRegisterCluster(e, idx) == [e EXCEPT !.regs = @ \cup {idx}]

----------------------------------------------------------------------------
\* The persisted record.  Every entry is kept under its identity-derived key;
\* add_* replaces the entry of the same key, remove_* drops it.
EmptyState == [subsys |-> {}, ns |-> {}, qos |-> {}, host |-> {}, lsnr |-> {}]

StateAddSubsystem(st, nqn, serial, ha) ==
    [st EXCEPT !.subsys = {s \in @ : s.nqn # nqn}
                 \cup {[nqn |-> nqn, serial |-> serial, enable_ha |-> ha]}]

StateRemoveSubsystem(st, nqn) ==
    [st EXCEPT !.subsys = {s \in @ : s.nqn # nqn}]

\* add_namespace(subsystem_nqn, nsid, json_req): the key holds `key`, the
\* stored request holds its own nsid field.
StateAddNamespace(st, nqn, key, nsid, uuid, grp) ==
    [st EXCEPT !.ns = {n \in @ : ~(n.nqn = nqn /\ n.key = key)}
                 \cup {[nqn |-> nqn, key |-> key, nsid |-> nsid,
                        uuid |-> uuid, grp |-> grp]}]

StateRemoveNamespace(st, nqn, key) ==
    [st EXCEPT !.ns = {n \in @ : ~(n.nqn = nqn /\ n.key = key)}]

StateAddNamespaceQos(st, nqn, key, lim) ==
    [st EXCEPT !.qos = {q \in @ : ~(q.nqn = nqn /\ q.key = key)}
                 \cup {[nqn |-> nqn, key |-> key, lim |-> lim]}]

StateRemoveNamespaceQos(st, nqn, key) ==
    [st EXCEPT !.qos = {q \in @ : ~(q.nqn = nqn /\ q.key = key)}]

StateAddHost(st, nqn, host) == [st EXCEPT !.host = @ \cup {<<nqn, host>>}]
StateRemoveHost(st, nqn, host) == [st EXCEPT !.host = @ \ {<<nqn, host>>}]

StateListener(nqn, gw, addr) == [nqn |-> nqn, gw |-> gw, addr |-> addr]
StateAddListener(st, nqn, gw, addr) ==
    [st EXCEPT !.lsnr = @ \cup {StateListener(nqn, gw, addr)}]
StateRemoveListener(st, nqn, gw, addr) ==
    [st EXCEPT !.lsnr = @ \ {StateListener(nqn, gw, addr)}]

\* A store write answers "ok" or raises.
StoreOutcomes == {TRUE} \cup (IF nfaults < MaxFaults THEN {FALSE} ELSE {})

----------------------------------------------------------------------------
\* The distributed (OMAP) lock: reentrant for the call that owns it.
FreeOmapLock == [owner |-> NoThread, depth |-> 0]

OmapCanEnter(t) == omap_lock.owner \in {NoThread, t}
OmapEnter(t) == [owner |-> t, depth |-> omap_lock.depth + 1]
OmapExit(t) ==
    IF omap_lock.depth <= 1 THEN FreeOmapLock
    ELSE [owner |-> t, depth |-> omap_lock.depth - 1]
OmapLocked == omap_lock.owner # NoThread

----------------------------------------------------------------------------
\* A worker's frame: the request (op .. qos) and the handler's locals.
NoStatus == -1
NoQos == [f \in QosFields |-> -1]

IdleFrame ==
    [op |-> "none", ctx |-> FALSE, nqn |-> "", nsid |-> 0, uuid |-> "",
     grp |-> 0, force |-> FALSE, serial |-> "", ha |-> FALSE, ana |-> FALSE,
     host |-> "", gw |-> "", addr |-> "", bad |-> "", aha |-> "AUTO_HA_UNSET",
     qos |-> NoQos,
     fn |-> "none", ns_list |-> <<>>, nslist |-> <<>>, bdev |-> NoBdev,
     fnsid |-> 0, fuuid |-> "",
     cluster |-> 0, entry |-> <<>>, todo |-> <<>>, args |-> NoQos,
     retns |-> NoStatus, status |-> NoStatus,
     ncalls |-> 0, efail |-> {}, engok |-> FALSE, wrote |-> FALSE, sfail |-> FALSE,
     gap |-> FALSE,
     snapE |-> EmptyEngine, snapO |-> EmptyState]

NoEvent ==
    [t |-> NoThread, kind |-> "none", name |-> "", ok |-> TRUE,
     rpc |-> FALSE, omp |-> FALSE, live |-> FALSE, gap |-> FALSE,
     engok |-> FALSE, clean |-> TRUE]

\* The event of a step of worker t, with the locks t holds as the step is
\* taken; clean: no engine call and no store write has failed so far, and
\* every operation so far was a live one.
Event(t, kind, name, ok) ==
    [t |-> t, kind |-> kind, name |-> name, ok |-> ok,
     rpc |-> rpc_lock = t, omp |-> omap_lock.owner = t,
     live |-> fr[t].ctx, gap |-> fr[t].gap, engok |-> fr[t].engok,
     clean |-> ev.clean /\ (kind \in {"eng", "add", "rem"} => ok)]

Init ==
    /\ pc = [t \in Threads |-> "idle"]
    /\ fr = [t \in Threads |-> IdleFrame]
    /\ rpc_lock = NoThread
    /\ omap_lock = FreeOmapLock
    /\ eng = EmptyEngine
    /\ omap = EmptyState
    /\ clusters = <<>>
    /\ current_cluster = NoCluster
    /\ alloc_failed = FALSE
    /\ nops = 0
    /\ nfaults = 0
    /\ ev = NoEvent


----------------------------------------------------------------------------
\* Step helpers.
Goto(t, label) == pc' = [pc EXCEPT ![t] = label]
SetFrame(t, f) == fr' = [fr EXCEPT ![t] = f]
Log(t, kind, name, ok) == ev' = Event(t, kind, name, ok)
\* The frame after an engine call `name` answered `out`: the call is counted,
\* a failed one is noted with the status its error translates to.
Called(f, name, out) ==
    [f EXCEPT !.ncalls = IF @ < 9 THEN @ + 1 ELSE @,
              !.efail = IF out.res = "ok" THEN @
                        ELSE @ \cup {[name |-> name, code |-> FailStatus(out),
                                      out |-> out]}]
Fault(out) == nfaults' = IF Injected(out) THEN nfaults + 1 ELSE nfaults
StoreFault(ok) == nfaults' = IF ok THEN nfaults ELSE nfaults + 1

UnchangedLocks == UNCHANGED <<rpc_lock, omap_lock>>
UnchangedPool == UNCHANGED <<clusters, current_cluster, alloc_failed>>

----------------------------------------------------------------------------
\* Requests a client (live, context present) or a replay (context absent)
\* can hand to the facade.
Request(op, ctx, nqn) == [IdleFrame EXCEPT !.op = op, !.ctx = ctx, !.nqn = nqn]

CreateSubsystemRequests ==
    { [Request("create_subsystem", ctx, nqn) EXCEPT
           !.serial = ser, !.ha = ha, !.ana = ana] :
      ctx \in BOOLEAN, nqn \in ReqNqns, ser \in {""} \cup UserSerials,
      ha \in BOOLEAN, ana \in BOOLEAN }

DeleteSubsystemRequests ==
    { [Request("delete_subsystem", ctx, nqn) EXCEPT !.force = force] :
      ctx \in BOOLEAN, nqn \in ReqNqns, force \in BOOLEAN }

\* Facade methods that run their *_safe body through execute_grpc_function.
ExecuteOps ==
    {"create_subsystem", "namespace_add", "namespace_change_load_balancing_group",
     "namespace_set_qos_limits", "namespace_delete", "add_host", "remove_host",
     "create_listener", "delete_listener", "list_hosts", "list_connections",
     "list_listeners", "list_subsystems", "get_spdk_nvmf_log_flags_and_level"}

\* A faulty variant of EntryLabel: list_namespaces without its
\* `with self.rpc_lock:`.
EntryLabelUnlocked(op) ==
    CASE op \in ExecuteOps -> "omap_acq"
      [] op = "delete_subsystem" -> "ds_entry"
      [] op = "list_namespaces" -> "ln_get"
      [] op = "namespace_get_io_stats" -> "io_acq"
      [] op = "namespace_resize" -> "rs_find"

\* Where a facade method starts.
EntryLabel(op) ==
    CASE op \in ExecuteOps -> "omap_acq"
      [] op = "delete_subsystem" -> "ds_entry"
      [] op = "list_namespaces" -> "ln_acq"
      [] op = "namespace_get_io_stats" -> "io_acq"
      [] op = "namespace_resize" -> "rs_find"

\* Query methods that run through execute_grpc_function.
QueryOps ==
    {"list_hosts", "list_connections", "list_listeners", "list_subsystems",
     "get_spdk_nvmf_log_flags_and_level"}

\* First step of a *_safe body, run with both locks held.
BodyEntry(fn) ==
    CASE fn = "create_subsystem" -> "cs_validate"
      [] fn = "namespace_add" -> "na_start"
      [] fn = "namespace_set_qos_limits" -> "sq_find"
      [] fn = "add_host" -> "ah_validate"
      [] fn = "remove_host" -> "rh_validate"
      [] fn = "create_listener" -> "cl_validate"
      [] fn = "delete_listener" -> "dl_validate"
      [] fn \in {"list_hosts", "list_connections", "list_listeners",
                 "list_subsystems"} -> "q_call"
      [] OTHER -> "omap_in"

\* A faulty variant of InnerEntry: namespace_delete_safe looks the namespace
\* up with needs_lock=True.
InnerEntryLookupLocks(fn) ==
    CASE fn = "create_subsystem" -> "cs_check"
      [] fn = "delete_subsystem" -> "dss_delete"
      [] fn = "namespace_add" -> "cb_cluster"
      [] fn = "namespace_delete" -> "fn_acq"
      [] fn = "namespace_change_load_balancing_group" -> "lb_find"
      [] fn = "namespace_set_qos_limits" -> "sq_set"
      [] fn = "add_host" -> "ah_check"
      [] fn = "remove_host" -> "rh_call"
      [] fn = "create_listener" -> "cl_check"
      [] fn = "delete_listener" -> "dl_call"
      [] OTHER -> "q_call"

\* First step inside `with self.omap_lock(context=context)`.
InnerEntry(fn) ==
    CASE fn = "create_subsystem" -> "cs_check"
      [] fn = "delete_subsystem" -> "dss_delete"
      [] fn = "namespace_add" -> "cb_cluster"
      [] fn = "namespace_delete" -> "nd_find"
      [] fn = "namespace_change_load_balancing_group" -> "lb_find"
      [] fn = "namespace_set_qos_limits" -> "sq_set"
      [] fn = "add_host" -> "ah_check"
      [] fn = "remove_host" -> "rh_call"
      [] fn = "create_listener" -> "cl_check"
      [] fn = "delete_listener" -> "dl_call"
      [] OTHER -> "q_call"

----------------------------------------------------------------------------
\* execute_grpc_function / execute_omap_locking_function: take the
\* distributed lock, then (in _grpc_function_with_lock) rpc_lock, run the
\* body, release rpc_lock, release the distributed lock.
ExecuteAcquireOmap(t) ==
    /\ pc[t] = "omap_acq"
    /\ omap_lock.owner = NoThread
    /\ omap_lock' = OmapEnter(t)
    /\ Goto(t, "rpc_acq")
    /\ Log(t, "acq", "omap", TRUE)
    /\ UNCHANGED <<fr, rpc_lock, eng, omap, nops, nfaults>>
    /\ UnchangedPool

\* A faulty variant of AfterRpcAcquire: namespace_get_io_stats asks for the
\* distributed lock inside its `with self.rpc_lock:`.
AfterRpcAcquireThenOmap(l, f) ==
    CASE l = "rpc_acq" -> BodyEntry(f.fn)
      [] l = "ln_acq" -> "ln_get"
      [] l = "gb_acq" -> "gb_get"
      [] l = "io_acq" -> "omap_acq"
      [] l = "fn_acq" -> "rs_get"
      [] l = "rb_acq" -> "rb_resize"

\* Position after `with self.rpc_lock:` has been entered at label l.
AfterRpcAcquire(l, f) ==
    CASE l = "rpc_acq" -> BodyEntry(f.fn)
      [] l = "ln_acq" -> "ln_get"
      [] l = "gb_acq" -> "gb_get"
      [] l = "io_acq" -> "io_find"
      [] l = "fn_acq" -> "rs_get"
      [] l = "rb_acq" -> "rb_resize"

RpcLockAcquire(t) ==
    /\ pc[t] \in {"rpc_acq", "ln_acq", "gb_acq", "io_acq", "fn_acq", "rb_acq"}
    /\ rpc_lock = NoThread
    /\ rpc_lock' = t
    /\ Goto(t, AfterRpcAcquire(pc[t], fr[t]))
    /\ SetFrame(t, [fr[t] EXCEPT !.snapE = eng, !.snapO = omap])
    /\ Log(t, "acq", "rpc", TRUE)
    /\ UNCHANGED <<omap_lock, eng, omap, nops, nfaults>>
    /\ UnchangedPool

\* Position after the `with self.rpc_lock:` block entered at label l is left.
AfterRpcRelease(l, f) ==
    CASE l = "rpc_rel" -> "omap_rel"
      [] l = "ln_rel" -> IF f.status # NoStatus THEN "done" ELSE "ln_loop"
      [] l = "gb_rel" -> "ln_loop"
      [] l = "io_rel" -> "done"
      [] l = "rs_rel" -> IF f.bdev # NoBdev THEN "rb_acq" ELSE "done"
      [] l = "rb_rel" -> "done"

\* A faulty variant of RpcLockAfterExit: the block is left with the lock held.
RpcLockLeaked(t) == t

\* rpc_lock once the `with self.rpc_lock:` block is left, on any path.
RpcLockAfterExit(t) == NoThread

RpcLockRelease(t) ==
    /\ pc[t] \in {"rpc_rel", "ln_rel", "gb_rel", "io_rel", "rs_rel", "rb_rel"}
    /\ rpc_lock' = RpcLockAfterExit(t)
    /\ Goto(t, AfterRpcRelease(pc[t], fr[t]))
    /\ Log(t, "rel", "rpc", TRUE)
    /\ UNCHANGED <<fr, omap_lock, eng, omap, nops, nfaults>>
    /\ UnchangedPool

\* Where the facade method goes on once execute_grpc_function has returned.
AfterExecute(f) ==
    IF f.op = "delete_subsystem" /\ f.fn = "namespace_delete"
          /\ f.status # Unhandled
    THEN "ds_loop"
    ELSE "done"

ExecuteReleaseOmap(t) ==
    /\ pc[t] = "omap_rel"
    /\ omap_lock' = OmapExit(t)
    /\ Goto(t, AfterExecute(fr[t]))
    /\ SetFrame(t, [fr[t] EXCEPT !.gap = @ \/ fr[t].ncalls > 0])
    /\ Log(t, "rel", "omap", TRUE)
    /\ UNCHANGED <<rpc_lock, eng, omap, nops, nfaults>>
    /\ UnchangedPool

\* `with self.omap_lock(context=context):` inside a body.
OmapLockEnter(t) ==
    /\ pc[t] = "omap_in"
    /\ OmapCanEnter(t)
    /\ omap_lock' = OmapEnter(t)
    /\ Goto(t, InnerEntry(fr[t].fn))
    /\ Log(t, "acq", "omap_inner", TRUE)
    /\ UNCHANGED <<fr, rpc_lock, eng, omap, nops, nfaults>>
    /\ UnchangedPool

OmapLockExit(t) ==
    /\ pc[t] = "omap_out"
    /\ omap_lock' = OmapExit(t)
    /\ Goto(t, "rpc_rel")
    /\ Log(t, "rel", "omap_inner", TRUE)
    /\ UNCHANGED <<fr, rpc_lock, eng, omap, nops, nfaults>>
    /\ UnchangedPool

\* The facade method returns its status to the caller.
Return(t) ==
    /\ pc[t] = "done"
    /\ Goto(t, "idle")
    /\ SetFrame(t, IdleFrame)
    /\ Log(t, "ret", fr[t].op, fr[t].status = 0)
    /\ UNCHANGED <<rpc_lock, omap_lock, eng, omap, nops, nfaults>>
    /\ UnchangedPool


----------------------------------------------------------------------------
\* create_subsystem_safe

\* Input validation of create_subsystem_safe: the status it returns, or
\* NoStatus when the request passes.
CreateSubsystemInvalid(f) ==
    IF f.nqn = DISCOVERY_NQN THEN EINVAL
    ELSE IF f.ha /\ ~f.ana THEN EINVAL
    ELSE IF min_cntlid > max_cntlid THEN EINVAL
    ELSE NoStatus

CreateSubsystemValidate(t) ==
    /\ pc[t] = "cs_validate"
    /\ IF CreateSubsystemInvalid(fr[t]) # NoStatus
       THEN /\ SetFrame(t, [fr[t] EXCEPT !.status = CreateSubsystemInvalid(fr[t])])
            /\ Goto(t, "rpc_rel")
       ELSE /\ \E ser \in (IF fr[t].serial = "" THEN RandomSerials ELSE {fr[t].serial}) :
                  SetFrame(t, [fr[t] EXCEPT !.serial = ser])
            /\ Goto(t, "omap_in")
    /\ Log(t, "local", "validate", CreateSubsystemInvalid(fr[t]) = NoStatus)
    /\ UNCHANGED <<eng, omap, nops, nfaults>>
    /\ UnchangedLocks /\ UnchangedPool

\* A faulty variant of subsystem_already_exists: the record is searched in
\* replay too.
subsystem_in_record(context, nqn) == \E s \in omap.subsys : s.nqn = nqn

subsystem_already_exists(context, nqn) ==
    IF ~context THEN FALSE ELSE \E s \in omap.subsys : s.nqn = nqn

\* A faulty variant of serial_number_already_used: no serial is ever in use.
serial_never_used(context, serial) == {}

\* The NQNs of the subsystems that use the serial number ({} for None).
serial_number_already_used(context, serial) ==
    IF ~context THEN {} ELSE {s.nqn : s \in {x \in omap.subsys : x.serial = serial}}

CreateSubsystemCheck(t) ==
    /\ pc[t] = "cs_check"
    /\ LET f == fr[t]
           dup == \/ subsystem_already_exists(f.ctx, f.nqn)
                  \/ serial_number_already_used(f.ctx, f.serial) # {}
       IN  /\ IF dup
              THEN /\ SetFrame(t, [f EXCEPT !.status = EEXIST])
                   /\ Goto(t, "omap_out")
              ELSE /\ UNCHANGED fr
                   /\ Goto(t, "cs_create")
           /\ Log(t, IF f.ctx THEN "read" ELSE "local", "subsystem", ~dup)
    /\ UNCHANGED <<eng, omap, nops, nfaults>>
    /\ UnchangedLocks /\ UnchangedPool

\* A faulty variant of CreateSubsystemFailed: only a raised error counts.
CreateSubsystemRaised(out) == out.res = "exc"

\* `if not ret:` after nvmf_create_subsystem: the call counts as failed.
CreateSubsystemFailed(out) == out.res # "ok"

CreateSubsystemCall(t) ==
    /\ pc[t] = "cs_create"
    /\ \E out \in Outcomes(~EngHasSubsys(eng, fr[t].nqn), EngInvalidParams) :
         LET f == Called(fr[t], "nvmf_create_subsystem", out) IN
         /\ Fault(out)
         /\ eng' = IF out.res = "ok"
                   THEN EngCreateSubsystem(eng, f.nqn, f.serial) ELSE eng
         /\ IF CreateSubsystemFailed(out)
            THEN /\ SetFrame(t, [f EXCEPT !.status = FailStatus(out)])
                 /\ Goto(t, "omap_out")
            ELSE IF f.ctx
            THEN /\ SetFrame(t, [f EXCEPT !.engok = out.res = "ok"])
                 /\ Goto(t, "cs_persist")
            ELSE /\ SetFrame(t, [f EXCEPT !.engok = out.res = "ok", !.status = 0])
                 /\ Goto(t, "omap_out")
         /\ Log(t, "eng", "nvmf_create_subsystem", out.res = "ok")
    /\ UNCHANGED <<omap, nops>>
    /\ UnchangedLocks /\ UnchangedPool

CreateSubsystemPersist(t) ==
    /\ pc[t] = "cs_persist"
    /\ \E ok \in StoreOutcomes :
         LET f == fr[t] IN
         /\ StoreFault(ok)
         /\ omap' = IF ok THEN StateAddSubsystem(omap, f.nqn, f.serial, f.ha) ELSE omap
         /\ SetFrame(t, [f EXCEPT !.status = IF ok THEN 0 ELSE EINVAL,
                                   !.wrote = @ \/ ok, !.sfail = @ \/ ~ok])
         /\ Log(t, "add", "subsystem", ok)
    /\ Goto(t, "omap_out")
    /\ UNCHANGED <<eng, nops>>
    /\ UnchangedLocks /\ UnchangedPool

----------------------------------------------------------------------------
\* delete_subsystem and delete_subsystem_safe

\* The nsid fields of the namespace entries of the record, as a list.
RECURSIVE SetToSeq(_)
SetToSeq(S) ==
    IF S = {} THEN <<>>
    ELSE LET x == CHOOSE y \in S : \A z \in S : y.key <= z.key
         IN  <<x>> \o SetToSeq(S \ {x})

\* A faulty variant of get_subsystem_namespaces: no key of the local state
\* passes the prefix test.
get_subsystem_namespaces_none(nqn) == <<>>

get_subsystem_namespaces(nqn) ==
    LET entries == SetToSeq({n \in omap.ns : n.nqn = nqn})
    IN  [i \in 1 .. Len(entries) |-> entries[i].nsid]

\* delete_subsystem up to its loop: the discovery check, then (live) the
\* scan of the record for listeners and namespaces, then the force check.
DeleteSubsystemEntry(t) ==
    /\ pc[t] = "ds_entry"
    /\ LET f == fr[t]
           ns_list == IF f.ctx THEN get_subsystem_namespaces(f.nqn) ELSE <<>>
       IN  IF f.nqn = DISCOVERY_NQN
           THEN /\ SetFrame(t, [f EXCEPT !.status = EINVAL])
                /\ Goto(t, "done")
                /\ Log(t, "local", "validate", FALSE)
           ELSE /\ IF ~f.force /\ Len(ns_list) > 0
                   THEN /\ SetFrame(t, [f EXCEPT !.status = EBUSY])
                        /\ Goto(t, "done")
                   ELSE /\ SetFrame(t, [f EXCEPT !.ns_list = ns_list,
                                                 !.nslist = ns_list])
                        /\ Goto(t, "ds_loop")
                /\ Log(t, IF f.ctx THEN "read" ELSE "local", "namespaces", TRUE)
    /\ UNCHANGED <<eng, omap, nops, nfaults>>
    /\ UnchangedLocks /\ UnchangedPool

\* `for nsid in ns_list: self.namespace_delete(...)`, then
\* execute_grpc_function(self.delete_subsystem_safe, ...).
DeleteSubsystemLoop(t) ==
    /\ pc[t] = "ds_loop"
    /\ LET f == fr[t] IN
       IF Len(f.nslist) > 0
       THEN SetFrame(t, [f EXCEPT !.fn = "namespace_delete", !.nsid = Head(f.nslist),
                                  !.uuid = "", !.nslist = Tail(f.nslist),
                                  !.status = NoStatus])
       ELSE SetFrame(t, [f EXCEPT !.fn = "delete_subsystem", !.status = NoStatus])
    /\ Goto(t, "omap_acq")
    /\ Log(t, "local", "loop", TRUE)
    /\ UNCHANGED <<eng, omap, nops, nfaults>>
    /\ UnchangedLocks /\ UnchangedPool

\* `if not ret:` after nvmf_delete_subsystem.
DeleteSubsystemFailed(out) == out.res # "ok"

DeleteSubsystemCall(t) ==
    /\ pc[t] = "dss_delete"
    /\ \E out \in Outcomes(EngHasSubsys(eng, fr[t].nqn), EngInvalidParams) :
         LET f == Called(fr[t], "nvmf_delete_subsystem", out) IN
         /\ Fault(out)
         /\ eng' = IF out.res = "ok" THEN EngDeleteSubsystem(eng, f.nqn) ELSE eng
         /\ SetFrame(t, [f EXCEPT !.status = IF DeleteSubsystemFailed(out)
                                             THEN FailStatus(out) ELSE NoStatus,
                                   !.engok = out.res = "ok"])
         /\ Log(t, "eng", "nvmf_delete_subsystem", out.res = "ok")
    /\ Goto(t, "dss_remove")
    /\ UNCHANGED <<omap, nops>>
    /\ UnchangedLocks /\ UnchangedPool

\* The record without the entry a delete operation is about:
\* remove_subsystem / remove_host / remove_listener.
StateRemoveFor(l, f) ==
    CASE l = "dss_remove" -> StateRemoveSubsystem(omap, f.nqn)
      [] l = "rh_state"   -> StateRemoveHost(omap, f.nqn, f.host)
      [] l = "dl_state"   -> StateRemoveListener(omap, f.nqn, f.gw, f.addr)

\* Status of a delete operation whose engine call ended with `engine`
\* (NoStatus: it succeeded) and whose state removal ended with `ok`.
DeleteStatus(engine, ok) ==
    IF engine # NoStatus THEN engine ELSE IF ok THEN 0 ELSE EINVAL

\* remove_subsystem_from_state, remove_host_from_state and
\* remove_listener_from_state, called on every path that follows the engine
\* call; without context they return at once.
RemoveFromState(t) ==
    /\ pc[t] \in {"dss_remove", "rh_state", "dl_state"}
    /\ LET f == fr[t] IN
       IF ~f.ctx
       THEN /\ SetFrame(t, [f EXCEPT !.status = DeleteStatus(f.status, TRUE)])
            /\ Log(t, "local", "remove_from_state", TRUE)
            /\ UNCHANGED <<omap, nfaults>>
       ELSE \E ok \in StoreOutcomes :
            /\ StoreFault(ok)
            /\ omap' = IF ok THEN StateRemoveFor(pc[t], f) ELSE omap
            /\ SetFrame(t, [f EXCEPT !.status = DeleteStatus(f.status, ok),
                                      !.wrote = @ \/ ok, !.sfail = @ \/ ~ok])
            /\ Log(t, "rem", CASE pc[t] = "dss_remove" -> "subsystem"
                               [] pc[t] = "rh_state" -> "host"
                               [] OTHER -> "listener", ok)
    /\ Goto(t, "omap_out")
    /\ UNCHANGED <<eng, nops>>
    /\ UnchangedLocks /\ UnchangedPool

----------------------------------------------------------------------------
\* Cluster context pool: _get_cluster / _alloc_cluster.

\* A faulty variant of NeedsNewCluster: the capacity is never looked at.
NeedsNewClusterWhenNone == current_cluster = NoCluster

\* Whether _get_cluster has to allocate a new context.
NeedsNewCluster ==
    \/ current_cluster = NoCluster
    \/ clusters[current_cluster + 1] >= bdevs_per_cluster

\* cluster_context_{len(self.clusters)}
NewClusterName == Len(clusters)

\* create_bdev evaluates cluster_name=self._get_cluster() inside its try.
GetCluster(t) ==
    /\ pc[t] = "cb_cluster"
    /\ IF NeedsNewCluster
       THEN \E out \in Outcomes(TRUE, EngInvalidParams) :
            LET f == Called(fr[t], "bdev_rbd_register_cluster", out) IN
            /\ Fault(out)
            /\ Log(t, "eng", "bdev_rbd_register_cluster", out.res = "ok")
            /\ IF out.res = "exc"
               THEN /\ current_cluster' = NoCluster
                    /\ alloc_failed' = TRUE
                    /\ UNCHANGED <<clusters, eng>>
                    /\ SetFrame(t, [f EXCEPT !.status = FailStatus(out)])
                    /\ Goto(t, HandlerExit(FailStatus(out), "na_bdev_cleanup"))
               ELSE /\ current_cluster' = NewClusterName
                    /\ clusters' = Append(clusters, 1)
                    /\ UNCHANGED alloc_failed
                    /\ eng' = IF out.res = "ok"
                              THEN EngRegisterCluster(eng, NewClusterName) ELSE eng
                    /\ SetFrame(t, [f EXCEPT !.cluster = NewClusterName])
                    /\ Goto(t, "cb_create")
       ELSE /\ clusters' = [clusters EXCEPT ![current_cluster + 1] = @ + 1]
            /\ SetFrame(t, [fr[t] EXCEPT !.cluster = current_cluster])
            /\ Goto(t, "cb_create")
            /\ Log(t, "local", "_get_cluster", TRUE)
            /\ UNCHANGED <<current_cluster, alloc_failed, eng, nfaults>>
    /\ UNCHANGED <<omap, nops>>
    /\ UnchangedLocks

----------------------------------------------------------------------------
\* namespace_add_safe, create_bdev, create_namespace, delete_bdev

find_unique_bdev_name(uuid) == <<"bdev_", uuid>>

UuidsInUse ==
    {n.uuid : n \in eng.ns} \cup {n.uuid : n \in omap.ns}
      \cup {b.name[2] : b \in eng.bdevs}

\* str(uuid.uuid4()): a uuid nobody uses.
FreshUuid ==
    LET free == {i \in 1 .. Len(RandomUuids) : RandomUuids[i] \notin UuidsInUse}
    IN  RandomUuids[CHOOSE i \in free : \A j \in free : i <= j]

NamespaceAddStart(t) ==
    /\ pc[t] = "na_start"
    /\ SetFrame(t, [fr[t] EXCEPT !.uuid = IF @ = "" THEN FreshUuid ELSE @])
    /\ Goto(t, "omap_in")
    /\ Log(t, "local", "uuid", TRUE)
    /\ UNCHANGED <<eng, omap, nops, nfaults>>
    /\ UnchangedLocks /\ UnchangedPool

\* `if not bdev_name:` after bdev_rbd_create.
CreateBdevFailed(out) == out.res # "ok"

CreateBdev(t) ==
    /\ pc[t] = "cb_create"
    /\ LET name == find_unique_bdev_name(fr[t].uuid) IN
       \E out \in Outcomes(name \notin EngBdevNames(eng), EngInvalidParams) :
         LET f == Called(fr[t], "bdev_rbd_create", out) IN
         /\ Fault(out)
         /\ eng' = IF out.res = "ok" THEN EngCreateBdev(eng, name, f.cluster) ELSE eng
         /\ IF CreateBdevFailed(out)
            THEN /\ SetFrame(t, [f EXCEPT !.status = FailStatus(out), !.bdev = name])
                 /\ Goto(t, HandlerExit(FailStatus(out), "na_bdev_cleanup"))
            ELSE /\ SetFrame(t, [f EXCEPT !.bdev = name, !.fnsid = f.nsid,
                                          !.fuuid = f.uuid])
                 /\ Goto(t, "cn_create")
         /\ Log(t, "eng", "bdev_rbd_create", out.res = "ok")
    /\ UNCHANGED <<omap, nops>>
    /\ UnchangedLocks /\ UnchangedPool

\* delete_bdev(bdev_name) on the three paths that call it: after a failed
\* create_bdev, after a failed create_namespace, and in namespace_delete_safe
\* (the only one whose status is returned).
DeleteBdev(t) ==
    /\ pc[t] \in {"na_bdev_cleanup", "na_ns_cleanup", "nd_bdev"}
    /\ LET name == IF pc[t] = "na_bdev_cleanup"
                   THEN find_unique_bdev_name(fr[t].uuid) ELSE fr[t].bdev IN
       \E out \in Outcomes(name \in EngBdevNames(eng), EngNoDevice) :
         LET f == Called(fr[t], "bdev_rbd_delete", out) IN
         /\ Fault(out)
         /\ eng' = IF out.res = "ok" THEN EngDeleteBdev(eng, name) ELSE eng
         /\ SetFrame(t, [f EXCEPT !.status =
                IF pc[t] = "nd_bdev"
                THEN (IF out.res = "ok" THEN 0 ELSE FailStatus(out))
                ELSE @])
         /\ Log(t, "eng", "bdev_rbd_delete", out.res = "ok")
    /\ Goto(t, "omap_out")
    /\ UNCHANGED <<omap, nops>>
    /\ UnchangedLocks /\ UnchangedPool

\* Checks of create_namespace before its engine call.
CreateNamespaceInvalid(nqn, anagrpid) ==
    IF anagrpid > MAX_ANA_GROUPS THEN EINVAL
    ELSE IF nqn = DISCOVERY_NQN THEN EINVAL
    ELSE NoStatus

\* `if not nsid:` after nvmf_subsystem_add_ns.
CreateNamespaceFailed(out) == out.res # "ok"

\* create_namespace(nqn, bdev_name, nsid, anagrpid, uuid, context), called by
\* namespace_add_safe and by namespace_change_load_balancing_group_safe.
CreateNamespace(t) ==
    /\ pc[t] = "cn_create"
    /\ LET f0 == fr[t]
           inv == CreateNamespaceInvalid(f0.nqn, f0.grp)
           fail == IF f0.fn = "namespace_add" THEN "na_ns_cleanup" ELSE "omap_out"
           good == IF f0.fn = "namespace_add" THEN "na_persist" ELSE "lb_persist"
       IN
       IF inv # NoStatus
       THEN /\ SetFrame(t, [f0 EXCEPT !.status = inv,
                            !.efail = @ \cup {[name |-> "create_namespace", code |-> inv,
                                               out |-> FalsyOutcome]}])
            /\ Goto(t, fail)
            /\ Log(t, "local", "create_namespace", FALSE)
            /\ UNCHANGED <<eng, nfaults>>
       ELSE \E out \in Outcomes(EngCanAddNs(eng, f0.nqn, f0.bdev, f0.fnsid),
                                EngInvalidParams) :
            LET f == Called(f0, "nvmf_subsystem_add_ns", out) IN
            /\ Fault(out)
            /\ eng' = IF out.res = "ok"
                      THEN EngAddNs(eng, f.nqn, f.bdev, f.fnsid, f.grp, f.fuuid)
                      ELSE eng
            /\ Log(t, "eng", "nvmf_subsystem_add_ns", out.res = "ok")
            /\ IF CreateNamespaceFailed(out)
               THEN /\ SetFrame(t, [f EXCEPT !.status = FailStatus(out)])
                    /\ Goto(t, HandlerExit(FailStatus(out), fail))
               ELSE LET g == [f EXCEPT !.engok = out.res = "ok",
                                       !.retns = EngAssignNsid(eng, f.nqn, f.fnsid)]
                    IN  IF f.ctx
                        THEN SetFrame(t, g) /\ Goto(t, good)
                        ELSE SetFrame(t, [g EXCEPT !.status = 0])
                             /\ Goto(t, "omap_out")
    /\ UNCHANGED <<omap, nops>>
    /\ UnchangedLocks /\ UnchangedPool

\* gateway_state.add_namespace(request.subsystem_nqn, ret_ns.nsid, json_req)
NamespaceAddPersist(t) ==
    /\ pc[t] = "na_persist"
    /\ \E ok \in StoreOutcomes :
         LET f == fr[t] IN
         /\ StoreFault(ok)
         /\ omap' = IF ok
                    THEN StateAddNamespace(omap, f.nqn, f.retns, f.nsid, f.uuid, f.grp)
                    ELSE omap
         /\ SetFrame(t, [f EXCEPT !.status = IF ok THEN 0 ELSE EINVAL,
                                   !.wrote = @ \/ ok, !.sfail = @ \/ ~ok])
         /\ Log(t, "add", "namespace", ok)
    /\ Goto(t, "omap_out")
    /\ UNCHANGED <<eng, nops>>
    /\ UnchangedLocks /\ UnchangedPool


----------------------------------------------------------------------------
\* find_namespace_and_bdev_name

\* A faulty variant of FindMatches: a namespace passes when it matches one of
\* the identifiers given.
FindMatchesEither(nqn, nsid, uuid) ==
    {n \in EngGetNamespaces(eng, nqn) :
        \/ nsid > 0 /\ nsid = n.nsid
        \/ uuid # "" /\ uuid = n.uuid}

\* The namespaces of the reply that pass the NSID / UUID filters of the loop.
FindMatches(nqn, nsid, uuid) ==
    {n \in EngGetNamespaces(eng, nqn) :
        /\ ~(nsid > 0 /\ nsid # n.nsid)
        /\ ~(uuid # "" /\ uuid # n.uuid)}

\* found_ns: the last namespace of the reply that passes the filters.
FoundNamespace(nqn, nsid, uuid) ==
    LET m == FindMatches(nqn, nsid, uuid)
    IN  IF m = {} THEN <<>>
        ELSE <<CHOOSE n \in m : \A o \in m : o.nsid <= n.nsid>>

\* Where the caller of find_namespace_and_bdev_name goes on.
AfterFind(l, found) ==
    CASE l = "nd_find" -> IF found THEN "nd_remove" ELSE "omap_out"
      [] l = "lb_find" -> IF found THEN "lb_read" ELSE "omap_out"
      [] l = "sq_find" -> IF found THEN "sq_read" ELSE "rpc_rel"
      [] l = "io_find" -> IF found THEN "io_stat" ELSE "io_rel"
      [] l = "rs_get"  -> "rs_rel"

\* find_namespace_and_bdev_name(nqn, nsid, uuid, needs_lock, err_prefix): the
\* nvmf_get_subsystems call and the search of its reply.  With neither NSID
\* nor UUID it returns (None, None) at once.
FindNamespace(t) ==
    /\ pc[t] \in {"nd_find", "lb_find", "sq_find", "io_find", "rs_get"}
    /\ LET f0 == fr[t] IN
       IF f0.nsid <= 0 /\ f0.uuid = ""
       THEN /\ SetFrame(t, [f0 EXCEPT !.status = ENODEV])
            /\ Goto(t, AfterFind(pc[t], FALSE))
            /\ Log(t, "local", "find", FALSE)
            /\ UNCHANGED nfaults
       ELSE \E out \in Outcomes(TRUE, EngInvalidParams) :
            LET f == Called(f0, "nvmf_get_subsystems", out)
                ns == IF out.res = "ok"
                      THEN FoundNamespace(f.nqn, f.nsid, f.uuid) ELSE <<>>
            IN
            /\ Fault(out)
            /\ Log(t, "eng", "nvmf_get_subsystems", out.res = "ok")
            /\ Goto(t, AfterFind(pc[t], ns # <<>>))
            /\ IF ns = <<>>
               THEN SetFrame(t, [f EXCEPT !.status = ENODEV])
               ELSE SetFrame(t, [f EXCEPT !.fnsid = ns[1].nsid, !.fuuid = ns[1].uuid,
                                          !.bdev = ns[1].bdev])
    /\ UNCHANGED <<eng, omap, nops>>
    /\ UnchangedLocks /\ UnchangedPool

----------------------------------------------------------------------------
\* remove_namespace, remove_namespace_from_state, namespace_delete_safe

\* `if not ret:` after nvmf_subsystem_remove_ns.
RemoveNamespaceFailed(out) == out.res # "ok"

\* Whether the caller goes on to the persisted record after remove_namespace
\* returned `status` (namespace_delete_safe and the change of group both
\* return the error instead).
CleansStateAfterRemove(status) == status = 0

\* remove_namespace(subsystem_nqn, nsid, context)
RemoveNamespace(t) ==
    /\ pc[t] \in {"nd_remove", "lb_remove"}
    /\ \E out \in Outcomes(EngHasNs(eng, fr[t].nqn, fr[t].fnsid), EngInvalidParams) :
         LET f == Called(fr[t], "nvmf_subsystem_remove_ns", out)
             status == IF RemoveNamespaceFailed(out) THEN FailStatus(out) ELSE 0
         IN
         /\ Fault(out)
         /\ eng' = IF out.res = "ok" THEN EngRemoveNs(eng, f.nqn, f.fnsid) ELSE eng
         /\ Log(t, "eng", "nvmf_subsystem_remove_ns", out.res = "ok")
         /\ IF ~CleansStateAfterRemove(status)
            THEN SetFrame(t, [f EXCEPT !.status = status]) /\ Goto(t, "omap_out")
            ELSE /\ SetFrame(t, f)
                 /\ Goto(t, IF ~f.ctx \/ (pc[t] = "lb_remove" /\ f.fnsid = 0)
                            THEN (IF pc[t] = "nd_remove" THEN "nd_bdev" ELSE "cn_create")
                            ELSE (IF pc[t] = "nd_remove" THEN "nd_qos" ELSE "lb_qos"))
    /\ UNCHANGED <<omap, nops>>
    /\ UnchangedLocks /\ UnchangedPool

\* remove_namespace_from_state, first write: remove_namespace_qos (an error is
\* swallowed).
RemoveNamespaceQosFromState(t) ==
    /\ pc[t] \in {"nd_qos", "lb_qos"}
    /\ \E ok \in StoreOutcomes :
         /\ StoreFault(ok)
         /\ omap' = IF ok THEN StateRemoveNamespaceQos(omap, fr[t].nqn, fr[t].fnsid)
                    ELSE omap
         /\ Log(t, "rem", "namespace_qos", ok)
    /\ Goto(t, IF pc[t] = "nd_qos" THEN "nd_state" ELSE "lb_state")
    /\ UNCHANGED <<fr, eng, nops>>
    /\ UnchangedLocks /\ UnchangedPool

\* remove_namespace_from_state, second write: remove_namespace.  Neither
\* caller looks at the status it returns.
RemoveNamespaceFromState(t) ==
    /\ pc[t] \in {"nd_state", "lb_state"}
    /\ \E ok \in StoreOutcomes :
         /\ StoreFault(ok)
         /\ omap' = IF ok THEN StateRemoveNamespace(omap, fr[t].nqn, fr[t].fnsid)
                    ELSE omap
         /\ SetFrame(t, [fr[t] EXCEPT !.wrote = @ \/ ok, !.sfail = @ \/ ~ok])
         /\ Log(t, "rem", "namespace", ok)
    /\ Goto(t, IF pc[t] = "nd_state" THEN "nd_bdev" ELSE "cn_create")
    /\ UNCHANGED <<eng, nops>>
    /\ UnchangedLocks /\ UnchangedPool

----------------------------------------------------------------------------
\* namespace_change_load_balancing_group_safe

\* The namespace entry of the record under the key of (nqn, nsid), <<>> if none.
StateNamespaceEntry(nqn, nsid) ==
    LET m == {n \in omap.ns : n.nqn = nqn /\ n.key = nsid}
    IN  IF m = {} THEN <<>> ELSE <<CHOOSE n \in m : TRUE>>

\* After the lookup: the NSID / UUID cross-checks, then the read of the
\* namespace entry from the local state.
ChangeGroupRead(t) ==
    /\ pc[t] = "lb_read"
    /\ LET f == fr[t]
           entry == StateNamespaceEntry(f.nqn, f.fnsid)
       IN  IF (f.nsid # 0 /\ f.nsid # f.fnsid) \/ (f.uuid # "" /\ f.uuid # f.fuuid)
           THEN /\ SetFrame(t, [f EXCEPT !.status = ENODEV])
                /\ Goto(t, "omap_out")
                /\ Log(t, "local", "mismatch", FALSE)
           ELSE /\ IF entry = <<>>
                   THEN SetFrame(t, [f EXCEPT !.status = ENOENT])
                        /\ Goto(t, "omap_out")
                   ELSE SetFrame(t, [f EXCEPT !.entry = entry])
                        /\ Goto(t, "lb_remove")
                /\ Log(t, "read", "namespace", entry # <<>>)
    /\ UNCHANGED <<eng, omap, nops, nfaults>>
    /\ UnchangedLocks /\ UnchangedPool

\* A faulty variant of namespace_add_req: the NSID and the UUID are taken
\* from the change request, not from the old entry.
namespace_add_req_from_request(f) ==
    [nsid |-> f.nsid, uuid |-> f.uuid, anagrpid |-> f.grp]

\* namespace_add_req: rebuilt field by field from the old entry of the local
\* state, with the group of the request.
namespace_add_req(f) ==
    [nsid |-> f.entry[1].nsid, uuid |-> f.entry[1].uuid, anagrpid |-> f.grp]

\* gateway_state.add_namespace(request.subsystem_nqn, nsid, json_req) with the
\* request rebuilt from the old entry and the new group.
ChangeGroupPersist(t) ==
    /\ pc[t] = "lb_persist"
    /\ \E ok \in StoreOutcomes :
         LET f == fr[t] IN
         /\ StoreFault(ok)
         /\ omap' = IF ok
                    THEN StateAddNamespace(omap, f.nqn, f.fnsid,
                                           namespace_add_req(f).nsid,
                                           namespace_add_req(f).uuid,
                                           namespace_add_req(f).anagrpid)
                    ELSE omap
         /\ SetFrame(t, [f EXCEPT !.status = IF ok THEN 0 ELSE EINVAL,
                                   !.wrote = @ \/ ok, !.sfail = @ \/ ~ok])
         /\ Log(t, "add", "namespace", ok)
    /\ Goto(t, "omap_out")
    /\ UNCHANGED <<eng, nops>>
    /\ UnchangedLocks /\ UnchangedPool

----------------------------------------------------------------------------
\* add_host_safe, remove_host_safe

\* The discovery checks both host operations start with.
HostInvalid(f) ==
    IF f.nqn = DISCOVERY_NQN THEN EINVAL
    ELSE IF f.host = DISCOVERY_NQN THEN EINVAL
    ELSE NoStatus

HostValidate(t) ==
    /\ pc[t] \in {"ah_validate", "rh_validate"}
    /\ IF HostInvalid(fr[t]) # NoStatus
       THEN SetFrame(t, [fr[t] EXCEPT !.status = HostInvalid(fr[t])])
            /\ Goto(t, "rpc_rel")
       ELSE UNCHANGED fr /\ Goto(t, "omap_in")
    /\ Log(t, "local", "validate", HostInvalid(fr[t]) = NoStatus)
    /\ UNCHANGED <<eng, omap, nops, nfaults>>
    /\ UnchangedLocks /\ UnchangedPool

matching_host_exists(context, subsys_nqn, host_nqn) ==
    IF ~context THEN FALSE ELSE <<subsys_nqn, host_nqn>> \in omap.host

AddHostCheck(t) ==
    /\ pc[t] = "ah_check"
    /\ LET f == fr[t]
           dup == matching_host_exists(f.ctx, f.nqn, f.host)
       IN  /\ IF dup
              THEN SetFrame(t, [f EXCEPT !.status = EEXIST]) /\ Goto(t, "omap_out")
              ELSE UNCHANGED fr /\ Goto(t, "ah_call")
           /\ Log(t, IF f.ctx THEN "read" ELSE "local", "host", ~dup)
    /\ UNCHANGED <<eng, omap, nops, nfaults>>
    /\ UnchangedLocks /\ UnchangedPool

\* A faulty variant of AddHostRpc: "*" is added like any host NQN.
AddHostRpcListed(host) == "nvmf_subsystem_add_host"

\* The engine call add_host_safe makes for a host NQN.
AddHostRpc(host) ==
    IF host = "*" THEN "nvmf_subsystem_allow_any_host" ELSE "nvmf_subsystem_add_host"

\* The engine call remove_host_safe makes for a host NQN.
RemoveHostRpc(host) ==
    IF host = "*" THEN "nvmf_subsystem_allow_any_host" ELSE "nvmf_subsystem_remove_host"

\* `if not ret:` after nvmf_subsystem_allow_any_host / nvmf_subsystem_add_host.
AddHostFailed(out) == out.res # "ok"

AddHostCall(t) ==
    /\ pc[t] = "ah_call"
    /\ \E out \in Outcomes(EngHasSubsys(eng, fr[t].nqn), EngInvalidParams) :
         LET f == Called(fr[t], AddHostRpc(fr[t].host), out) IN
         /\ Fault(out)
         /\ eng' = IF out.res # "ok" THEN eng
                   ELSE IF f.host = "*" THEN EngAllowAnyHost(eng, f.nqn, FALSE)
                   ELSE EngAddHost(eng, f.nqn, f.host)
         /\ Log(t, "eng", AddHostRpc(fr[t].host), out.res = "ok")
         /\ IF AddHostFailed(out)
            THEN SetFrame(t, [f EXCEPT !.status = FailStatus(out)])
                 /\ Goto(t, "omap_out")
            ELSE IF f.ctx
            THEN SetFrame(t, [f EXCEPT !.engok = out.res = "ok"])
                 /\ Goto(t, "ah_persist")
            ELSE SetFrame(t, [f EXCEPT !.engok = out.res = "ok", !.status = 0])
                 /\ Goto(t, "omap_out")
    /\ UNCHANGED <<omap, nops>>
    /\ UnchangedLocks /\ UnchangedPool

AddHostPersist(t) ==
    /\ pc[t] = "ah_persist"
    /\ \E ok \in StoreOutcomes :
         LET f == fr[t] IN
         /\ StoreFault(ok)
         /\ omap' = IF ok THEN StateAddHost(omap, f.nqn, f.host) ELSE omap
         /\ SetFrame(t, [f EXCEPT !.status = IF ok THEN 0 ELSE EINVAL,
                                   !.wrote = @ \/ ok, !.sfail = @ \/ ~ok])
         /\ Log(t, "add", "host", ok)
    /\ Goto(t, "omap_out")
    /\ UNCHANGED <<eng, nops>>
    /\ UnchangedLocks /\ UnchangedPool

\* `if not ret:` after nvmf_subsystem_allow_any_host / nvmf_subsystem_remove_host.
RemoveHostFailed(out) == out.res # "ok"

RemoveHostCall(t) ==
    /\ pc[t] = "rh_call"
    /\ LET pre == IF fr[t].host = "*" THEN EngHasSubsys(eng, fr[t].nqn)
                  ELSE <<fr[t].nqn, fr[t].host>> \in eng.hosts IN
       \E out \in Outcomes(pre, EngInvalidParams) :
         LET f == Called(fr[t], RemoveHostRpc(fr[t].host), out) IN
         /\ Fault(out)
         /\ eng' = IF out.res # "ok" THEN eng
                   ELSE IF f.host = "*" THEN EngAllowAnyHost(eng, f.nqn, TRUE)
                   ELSE EngRemoveHost(eng, f.nqn, f.host)
         /\ Log(t, "eng", RemoveHostRpc(fr[t].host), out.res = "ok")
         /\ SetFrame(t, [f EXCEPT !.status = IF RemoveHostFailed(out)
                                             THEN FailStatus(out) ELSE NoStatus,
                                   !.engok = out.res = "ok"])
    /\ Goto(t, "rh_state")
    /\ UNCHANGED <<omap, nops>>
    /\ UnchangedLocks /\ UnchangedPool


----------------------------------------------------------------------------
\* create_listener_safe, delete_listener_safe

\* Enum and discovery checks of the listener operations (delete_listener_safe
\* has no auto_ha_state).
ListenerInvalid(f) ==
    IF f.bad = "trtype" THEN ENOKEY
    ELSE IF f.bad = "adrfam" THEN ENOKEY
    ELSE IF f.bad = "auto_ha_state" /\ f.fn = "create_listener" THEN ENOKEY
    ELSE IF f.nqn = DISCOVERY_NQN THEN EINVAL
    ELSE NoStatus

ListenerValidate(t) ==
    /\ pc[t] \in {"cl_validate", "dl_validate"}
    /\ IF ListenerInvalid(fr[t]) # NoStatus
       THEN SetFrame(t, [fr[t] EXCEPT !.status = ListenerInvalid(fr[t])])
            /\ Goto(t, "rpc_rel")
       ELSE UNCHANGED fr /\ Goto(t, "omap_in")
    /\ Log(t, "local", "validate", ListenerInvalid(fr[t]) = NoStatus)
    /\ UNCHANGED <<eng, omap, nops, nfaults>>
    /\ UnchangedLocks /\ UnchangedPool

\* A faulty variant of the gateway-name test: any name passes for this
\* gateway's.
GatewayNameAny(gw_name) == TRUE

\* `request.gateway_name == self.gateway_name` of both listener operations.
GatewayNameMatches(gw_name) == gw_name = GatewayName

\* A faulty variant of matching_listener_exists: the record is not looked at.
matching_listener_never(context, nqn, gw_name, traddr) == FALSE

matching_listener_exists(context, nqn, gw_name, traddr) ==
    IF ~context THEN FALSE ELSE StateListener(nqn, gw_name, traddr) \in omap.lsnr

\* `if request.gateway_name == self.gateway_name:` and the duplicate check.
CreateListenerCheck(t) ==
    /\ pc[t] = "cl_check"
    /\ LET f == fr[t]
           dup == matching_listener_exists(f.ctx, f.nqn, f.gw, f.addr)
       IN  IF ~GatewayNameMatches(f.gw)
           THEN /\ SetFrame(t, [f EXCEPT !.status = ENOENT])
                /\ Goto(t, "omap_out")
                /\ Log(t, "local", "gateway_name", FALSE)
           ELSE /\ IF dup
                   THEN SetFrame(t, [f EXCEPT !.status = EEXIST]) /\ Goto(t, "omap_out")
                   ELSE UNCHANGED fr /\ Goto(t, "cl_add")
                /\ Log(t, IF f.ctx THEN "read" ELSE "local", "listener", ~dup)
    /\ UNCHANGED <<eng, omap, nops, nfaults>>
    /\ UnchangedLocks /\ UnchangedPool

\* `if not ret:` after nvmf_subsystem_add_listener.
AddListenerFailed(out) == out.res # "ok"

CreateListenerCall(t) ==
    /\ pc[t] = "cl_add"
    /\ \E out \in Outcomes(EngHasSubsys(eng, fr[t].nqn), EngInvalidParams) :
         LET f == Called(fr[t], "nvmf_subsystem_add_listener", out) IN
         /\ Fault(out)
         /\ eng' = IF out.res = "ok" THEN EngAddListener(eng, f.nqn, f.addr) ELSE eng
         /\ Log(t, "eng", "nvmf_subsystem_add_listener", out.res = "ok")
         /\ IF AddListenerFailed(out)
            THEN SetFrame(t, [f EXCEPT !.status = FailStatus(out)])
                 /\ Goto(t, "omap_out")
            ELSE SetFrame(t, [f EXCEPT !.engok = out.res = "ok"])
                 /\ Goto(t, "cl_ha")
    /\ UNCHANGED <<omap, nops>>
    /\ UnchangedLocks /\ UnchangedPool

\* enable_ha of the subsystem entry of the record (False without an entry).
StateSubsystemHa(nqn) == \E s \in omap.subsys : s.nqn = nqn /\ s.enable_ha

\* The groups whose ANA state create_listener_safe sets: range(MAX_ANA_GROUPS),
\* each as x+1.
AnaGroups(enable_ha) ==
    IF enable_ha THEN [x \in 1 .. MAX_ANA_GROUPS |-> x] ELSE <<>>

\* enable_ha: from the record when auto_ha_state is unset, else from the request.
CreateListenerHa(t) ==
    /\ pc[t] = "cl_ha"
    /\ LET f == fr[t]
           enable_ha == IF f.aha = "AUTO_HA_UNSET" THEN StateSubsystemHa(f.nqn)
                        ELSE f.aha = "AUTO_HA_ON"
       IN  /\ SetFrame(t, [f EXCEPT !.todo = AnaGroups(enable_ha)])
           /\ Log(t, IF f.aha = "AUTO_HA_UNSET" THEN "read" ELSE "local",
                  "subsystem", TRUE)
    /\ Goto(t, "cl_ana")
    /\ UNCHANGED <<eng, omap, nops, nfaults>>
    /\ UnchangedLocks /\ UnchangedPool

\* Only an exception of nvmf_subsystem_listener_set_ana_state aborts the loop.
SetAnaStateFailed(out) == out.res = "exc"

\* One turn of the loop over the groups; past it, the way to the record.
CreateListenerAna(t) ==
    /\ pc[t] = "cl_ana"
    /\ LET f0 == fr[t] IN
       IF f0.todo = <<>>
       THEN /\ IF f0.ctx
               THEN UNCHANGED fr /\ Goto(t, "cl_persist")
               ELSE SetFrame(t, [f0 EXCEPT !.status = 0]) /\ Goto(t, "omap_out")
            /\ Log(t, "local", "loop", TRUE)
            /\ UNCHANGED <<eng, nfaults>>
       ELSE \E out \in Outcomes(EngListener(f0.nqn, f0.addr) \in eng.lsnr,
                                EngInvalidParams) :
            LET f == Called(f0, "nvmf_subsystem_listener_set_ana_state", out) IN
            /\ Fault(out)
            /\ eng' = IF out.res = "ok"
                      THEN EngSetAnaState(eng, f.nqn, f.addr, Head(f.todo)) ELSE eng
            /\ Log(t, "eng", "nvmf_subsystem_listener_set_ana_state", out.res = "ok")
            /\ IF SetAnaStateFailed(out)
               THEN SetFrame(t, [f EXCEPT !.status = FailStatus(out), !.todo = <<>>])
                    /\ Goto(t, "omap_out")
               ELSE SetFrame(t, [f EXCEPT !.todo = Tail(@)])
                    /\ Goto(t, "cl_ana")
    /\ UNCHANGED <<omap, nops>>
    /\ UnchangedLocks /\ UnchangedPool

CreateListenerPersist(t) ==
    /\ pc[t] = "cl_persist"
    /\ \E ok \in StoreOutcomes :
         LET f == fr[t] IN
         /\ StoreFault(ok)
         /\ omap' = IF ok THEN StateAddListener(omap, f.nqn, f.gw, f.addr) ELSE omap
         /\ SetFrame(t, [f EXCEPT !.status = IF ok THEN 0 ELSE EINVAL,
                                   !.wrote = @ \/ ok, !.sfail = @ \/ ~ok])
         /\ Log(t, "add", "listener", ok)
    /\ Goto(t, "omap_out")
    /\ UNCHANGED <<eng, nops>>
    /\ UnchangedLocks /\ UnchangedPool

\* `if not ret:` after nvmf_subsystem_remove_listener.
RemoveListenerFailed(out) == out.res # "ok"

DeleteListenerCall(t) ==
    /\ pc[t] = "dl_call"
    /\ LET f0 == fr[t] IN
       IF ~GatewayNameMatches(f0.gw)
       THEN /\ SetFrame(t, [f0 EXCEPT !.status = ENOENT])
            /\ Goto(t, "omap_out")
            /\ Log(t, "local", "gateway_name", FALSE)
            /\ UNCHANGED <<eng, nfaults>>
       ELSE \E out \in Outcomes(EngListener(f0.nqn, f0.addr) \in eng.lsnr,
                                EngInvalidParams) :
            LET f == Called(f0, "nvmf_subsystem_remove_listener", out) IN
            /\ Fault(out)
            /\ eng' = IF out.res = "ok"
                      THEN EngRemoveListener(eng, f.nqn, f.addr) ELSE eng
            /\ Log(t, "eng", "nvmf_subsystem_remove_listener", out.res = "ok")
            /\ SetFrame(t, [f EXCEPT !.status = IF RemoveListenerFailed(out)
                                                THEN FailStatus(out) ELSE NoStatus,
                                      !.engok = out.res = "ok"])
            /\ Goto(t, "dl_state")
    /\ UNCHANGED <<omap, nops>>
    /\ UnchangedLocks /\ UnchangedPool

----------------------------------------------------------------------------
\* namespace_set_qos_limits_safe

\* The QOS entry of the record for (nqn, nsid): its limits, NoQos if none.
StateQosLimits(nqn, nsid) ==
    LET m == {q \in omap.qos : q.nqn = nqn /\ q.key = nsid}
    IN  IF m = {} THEN NoQos ELSE (CHOOSE q \in m : TRUE).lim

\* set_qos_limits_args: the limits the request has set (HasField), built
\* before the merge.
set_qos_limits_args(req) == [x \in QosFields |-> IF req[x] # -1 THEN req[x] ELSE -1]

\* A faulty variant of MergeQos: a field the request leaves unset is stored
\* as the default 0.
MergeQosDefaults(req, old) == [x \in QosFields |-> IF req[x] # -1 THEN req[x] ELSE 0]

\* Merge current limits with previous ones: a field the request leaves unset
\* takes the stored value.
MergeQos(req, old) == [x \in QosFields |-> IF req[x] # -1 THEN req[x] ELSE old[x]]

\* Before the `with`: the read of the previous limits (live only) and the merge.
SetQosRead(t) ==
    /\ pc[t] = "sq_read"
    /\ LET f == fr[t] IN
       /\ SetFrame(t, [f EXCEPT !.entry = <<f.qos>>,
                       !.args = set_qos_limits_args(f.qos),
                       !.qos = IF f.ctx THEN MergeQos(f.qos, StateQosLimits(f.nqn, f.fnsid))
                               ELSE @])
       /\ Log(t, IF f.ctx THEN "read" ELSE "local", "namespace_qos", TRUE)
    /\ Goto(t, "omap_in")
    /\ UNCHANGED <<eng, omap, nops, nfaults>>
    /\ UnchangedLocks /\ UnchangedPool

\* `if not ret:` after bdev_set_qos_limit.
SetQosFailed(out) == out.res # "ok"

SetQosCall(t) ==
    /\ pc[t] = "sq_set"
    /\ \E out \in Outcomes(fr[t].bdev \in EngBdevNames(eng), EngNoDevice) :
         LET f == Called(fr[t], "bdev_set_qos_limit", out) IN
         /\ Fault(out)
         /\ Log(t, "eng", "bdev_set_qos_limit", out.res = "ok")
         /\ IF SetQosFailed(out)
            THEN SetFrame(t, [f EXCEPT !.status = FailStatus(out)])
                 /\ Goto(t, "omap_out")
            ELSE IF f.ctx
            THEN SetFrame(t, [f EXCEPT !.engok = out.res = "ok"])
                 /\ Goto(t, "sq_persist")
            ELSE SetFrame(t, [f EXCEPT !.engok = out.res = "ok", !.status = 0])
                 /\ Goto(t, "omap_out")
    /\ UNCHANGED <<eng, omap, nops>>
    /\ UnchangedLocks /\ UnchangedPool

SetQosPersist(t) ==
    /\ pc[t] = "sq_persist"
    /\ \E ok \in StoreOutcomes :
         LET f == fr[t] IN
         /\ StoreFault(ok)
         /\ omap' = IF ok THEN StateAddNamespaceQos(omap, f.nqn, f.fnsid, f.qos)
                    ELSE omap
         /\ SetFrame(t, [f EXCEPT !.status = IF ok THEN 0 ELSE EINVAL,
                                   !.wrote = @ \/ ok, !.sfail = @ \/ ~ok])
         /\ Log(t, "add", "namespace_qos", ok)
    /\ Goto(t, "omap_out")
    /\ UNCHANGED <<eng, nops>>
    /\ UnchangedLocks /\ UnchangedPool


----------------------------------------------------------------------------
\* Queries run through execute_grpc_function

\* The engine calls a query makes, in order.
QueryCalls(fn) ==
    CASE fn = "list_connections" ->
            <<"nvmf_subsystem_get_qpairs", "nvmf_subsystem_get_controllers",
              "nvmf_get_subsystems">>
      [] fn = "get_spdk_nvmf_log_flags_and_level" ->
            <<"log_get_flags", "log_get_level", "log_get_print_level">>
      [] OTHER -> <<"nvmf_get_subsystems">>

\* `status = errno. ...` set before the structured error is looked at.
QueryDefault(fn) ==
    CASE fn = "list_subsystems" -> ENODEV
      [] fn = "get_spdk_nvmf_log_flags_and_level" -> ENOKEY
      [] OTHER -> EINVAL

\* Where a query leaves its body.
QueryExit(fn) ==
    IF fn = "get_spdk_nvmf_log_flags_and_level" THEN "omap_out" ELSE "rpc_rel"

\* One engine call of a query; the reply is only read.
QueryCall(t) ==
    /\ pc[t] = "q_call"
    /\ \E out \in Outcomes(TRUE, EngInvalidParams) :
         LET f0 == fr[t]
             calls == QueryCalls(f0.fn)
             f == Called(f0, calls[f0.ncalls + 1], out)
         IN
         /\ Fault(out)
         /\ Log(t, "eng", calls[f0.ncalls + 1], out.res = "ok")
         /\ IF out.res = "exc"
            THEN SetFrame(t, [f EXCEPT !.status = ExceptionStatus(out.ex, QueryDefault(f.fn))])
                 /\ Goto(t, QueryExit(f.fn))
            ELSE IF f.ncalls < Len(calls)
            THEN SetFrame(t, f) /\ Goto(t, "q_call")
            ELSE IF f.fn = "list_subsystems" /\ out.res = "ok" /\ EngHasSubsys(eng, f.nqn)
            THEN SetFrame(t, f) /\ Goto(t, "q_ha")
            ELSE SetFrame(t, [f EXCEPT !.status = 0]) /\ Goto(t, QueryExit(f.fn))
    /\ UNCHANGED <<eng, omap, nops>>
    /\ UnchangedLocks /\ UnchangedPool

\* list_subsystems_safe: get_subsystem_ha_status reads the local state.
QueryHaStatus(t) ==
    /\ pc[t] = "q_ha"
    /\ SetFrame(t, [fr[t] EXCEPT !.status = 0, !.ha = StateSubsystemHa(fr[t].nqn)])
    /\ Goto(t, "rpc_rel")
    /\ Log(t, "read", "subsystem", TRUE)
    /\ UNCHANGED <<eng, omap, nops, nfaults>>
    /\ UnchangedLocks /\ UnchangedPool

----------------------------------------------------------------------------
\* list_namespaces, get_bdev_info, namespace_get_io_stats, namespace_resize,
\* resize_bdev: rpc_lock only.

\* The bdev names of the namespaces list_namespaces reports, by NSID.
ListedBdevs(nqn, nsid, uuid) ==
    LET m == SetToSeq({[key |-> n.nsid, bdev |-> n.bdev] :
                          n \in {x \in EngGetNamespaces(eng, nqn) :
                                    /\ ~(nsid # 0 /\ nsid # x.nsid)
                                    /\ ~(uuid # "" /\ uuid # x.uuid)}})
    IN  [i \in 1 .. Len(m) |-> m[i].bdev]

\* list_namespaces inside `with self.rpc_lock:`.
ListNamespacesGet(t) ==
    /\ pc[t] = "ln_get"
    /\ \E out \in Outcomes(TRUE, EngInvalidParams) :
         LET f == Called(fr[t], "nvmf_get_subsystems", out) IN
         /\ Fault(out)
         /\ Log(t, "eng", "nvmf_get_subsystems", out.res = "ok")
         /\ SetFrame(t, [f EXCEPT
                !.status = IF out.res = "exc" THEN FailStatus(out) ELSE NoStatus,
                !.todo = IF out.res = "ok" THEN ListedBdevs(f.nqn, f.nsid, f.uuid)
                         ELSE <<>>])
    /\ Goto(t, "ln_rel")
    /\ UNCHANGED <<eng, omap, nops>>
    /\ UnchangedLocks /\ UnchangedPool

\* The loop over the namespaces of the reply, after the lock was released.
ListNamespacesLoop(t) ==
    /\ pc[t] = "ln_loop"
    /\ IF fr[t].todo = <<>>
       THEN SetFrame(t, [fr[t] EXCEPT !.status = 0]) /\ Goto(t, "done")
       ELSE SetFrame(t, [fr[t] EXCEPT !.bdev = Head(fr[t].todo), !.todo = Tail(@)])
            /\ Goto(t, "gb_acq")
    /\ Log(t, "local", "loop", TRUE)
    /\ UNCHANGED <<eng, omap, nops, nfaults>>
    /\ UnchangedLocks /\ UnchangedPool

\* get_bdev_info inside `with self.rpc_lock:`; an exception is logged only.
GetBdevInfo(t) ==
    /\ pc[t] = "gb_get"
    /\ \E out \in Outcomes(fr[t].bdev \in EngBdevNames(eng), EngNoDevice) :
         /\ Fault(out)
         /\ Log(t, "eng", "bdev_get_bdevs", out.res = "ok")
         /\ SetFrame(t, Called(fr[t], "bdev_get_bdevs", out))
    /\ Goto(t, "gb_rel")
    /\ UNCHANGED <<eng, omap, nops>>
    /\ UnchangedLocks /\ UnchangedPool

\* namespace_get_io_stats: bdev_get_iostat, and `if not ret:` after the block.
GetIoStats(t) ==
    /\ pc[t] = "io_stat"
    /\ \E out \in Outcomes(fr[t].bdev \in EngBdevNames(eng), EngNoDevice) :
         /\ Fault(out)
         /\ Log(t, "eng", "bdev_get_iostat", out.res = "ok")
         /\ SetFrame(t, [Called(fr[t], "bdev_get_iostat", out) EXCEPT
                !.status = IF out.res = "ok" THEN 0 ELSE FailStatus(out)])
    /\ Goto(t, "io_rel")
    /\ UNCHANGED <<eng, omap, nops>>
    /\ UnchangedLocks /\ UnchangedPool

\* namespace_resize up to the lock of find_namespace_and_bdev_name, which
\* returns before it when neither NSID nor UUID is given.
ResizeEntry(t) ==
    /\ pc[t] = "rs_find"
    /\ IF fr[t].nsid <= 0 /\ fr[t].uuid = ""
       THEN SetFrame(t, [fr[t] EXCEPT !.status = ENODEV]) /\ Goto(t, "done")
       ELSE UNCHANGED fr /\ Goto(t, "fn_acq")
    /\ Log(t, "local", "find", TRUE)
    /\ UNCHANGED <<eng, omap, nops, nfaults>>
    /\ UnchangedLocks /\ UnchangedPool

\* `if not ret:` after bdev_rbd_resize.
ResizeBdevFailed(out) == out.res # "ok"

\* resize_bdev inside `with self.rpc_lock:`.
ResizeBdev(t) ==
    /\ pc[t] = "rb_resize"
    /\ \E out \in Outcomes(fr[t].bdev \in EngBdevNames(eng), EngNoDevice) :
         /\ Fault(out)
         /\ Log(t, "eng", "bdev_rbd_resize", out.res = "ok")
         /\ SetFrame(t, [Called(fr[t], "bdev_rbd_resize", out) EXCEPT
                !.status = IF ResizeBdevFailed(out) THEN FailStatus(out) ELSE 0,
                !.engok = out.res = "ok"])
    /\ Goto(t, "rb_rel")
    /\ UNCHANGED <<eng, omap, nops>>
    /\ UnchangedLocks /\ UnchangedPool

----------------------------------------------------------------------------
\* The requests the model hands to the facade.

NamespaceAddRequests ==
    { [Request("namespace_add", ctx, "nqn1") EXCEPT
           !.nsid = nsid, !.uuid = uuid, !.grp = grp] :
      ctx \in BOOLEAN, nsid \in {0, 1}, uuid \in {""} \cup UserUuids,
      grp \in {0, 1, MAX_ANA_GROUPS + 1} }
    \cup { [Request("namespace_add", TRUE, DISCOVERY_NQN) EXCEPT !.grp = 1] }

\* (nsid, uuid) pairs by which a request designates a namespace.
NamespaceRefs == {<<1, "">>, <<2, "">>, <<0, "u1">>, <<1, "u1">>, <<0, "">>}

NamespaceDeleteRequests ==
    { [Request("namespace_delete", ctx, "nqn1") EXCEPT !.nsid = r[1], !.uuid = r[2]] :
      ctx \in BOOLEAN, r \in NamespaceRefs }

ChangeGroupRequests ==
    { [Request("namespace_change_load_balancing_group", ctx, "nqn1") EXCEPT
           !.nsid = r[1], !.uuid = r[2], !.grp = grp] :
      ctx \in BOOLEAN, r \in {<<1, "">>, <<1, "u1">>}, grp \in {2, MAX_ANA_GROUPS + 1} }

QosRequests ==
    { [NoQos EXCEPT !["rw_ios_per_second"] = 10],
      [NoQos EXCEPT !["rw_mbytes_per_second"] = 20] }

SetQosRequests ==
    { [Request("namespace_set_qos_limits", ctx, "nqn1") EXCEPT !.nsid = 1, !.qos = q] :
      ctx \in BOOLEAN, q \in QosRequests }

HostRequests(op) ==
    { [Request(op, ctx, "nqn1") EXCEPT !.host = h] : ctx \in BOOLEAN, h \in HostNqns }
    \cup { [Request(op, TRUE, "nqn1") EXCEPT !.host = DISCOVERY_NQN] }

ListenerRequests(op) ==
    { [Request(op, ctx, "nqn1") EXCEPT !.gw = gw, !.addr = a, !.aha = aha] :
      ctx \in BOOLEAN, gw \in GatewayNames, a \in Addrs,
      aha \in IF op = "create_listener" THEN {"AUTO_HA_UNSET", "AUTO_HA_ON"}
              ELSE {"AUTO_HA_UNSET"} }
    \cup { [Request(op, TRUE, "nqn1") EXCEPT !.gw = gw, !.addr = "a1",
                                             !.bad = "trtype"] :
             gw \in GatewayNames }
    \cup { [Request(op, TRUE, "nqn1") EXCEPT !.gw = GatewayName, !.addr = "a1",
                                             !.bad = bad] :
             bad \in IF op = "create_listener" THEN {"adrfam", "auto_ha_state"}
                     ELSE {"adrfam"} }
    \cup { [Request(op, TRUE, DISCOVERY_NQN) EXCEPT !.gw = gw, !.addr = "a1"] :
             gw \in GatewayNames }

QueryRequests == { Request(op, TRUE, "nqn1") : op \in QueryOps }

RpcOnlyRequests ==
    { [Request(op, TRUE, "nqn1") EXCEPT !.nsid = nsid] :
      op \in {"list_namespaces", "namespace_get_io_stats", "namespace_resize"},
      nsid \in {0, 1} }

\* Requests that name the discovery NQN as their subsystem (those of
\* create/delete subsystem, add-namespace and the listeners are above).
DiscoveryRequests ==
    { [Request(op, TRUE, DISCOVERY_NQN) EXCEPT
           !.nsid = 1, !.grp = 2, !.host = "host1",
           !.qos = [NoQos EXCEPT !["rw_ios_per_second"] = 10]] :
      op \in {"namespace_delete", "namespace_change_load_balancing_group",
              "namespace_set_qos_limits", "namespace_resize",
              "add_host", "remove_host"} }

Requests ==
    CreateSubsystemRequests \cup DeleteSubsystemRequests
      \cup NamespaceAddRequests \cup NamespaceDeleteRequests
      \cup ChangeGroupRequests \cup SetQosRequests
      \cup HostRequests("add_host") \cup HostRequests("remove_host")
      \cup ListenerRequests("create_listener") \cup ListenerRequests("delete_listener")
      \cup QueryRequests \cup RpcOnlyRequests \cup DiscoveryRequests

\* The requests two workers race with: one or two of every operation.
ConcurrentRequests ==
    { [Request("create_subsystem", TRUE, "nqn1") EXCEPT
           !.serial = "SPDK2", !.ha = TRUE, !.ana = TRUE],
      [Request("create_subsystem", FALSE, "nqn1") EXCEPT !.serial = "SPDK2"],
      [Request("create_subsystem", TRUE, "nqn2") EXCEPT !.serial = "SPDK2"],
      [Request("delete_subsystem", TRUE, "nqn1") EXCEPT !.force = TRUE],
      Request("delete_subsystem", TRUE, "nqn1"),
      [Request("namespace_add", TRUE, "nqn1") EXCEPT !.nsid = 1, !.grp = 1],
      [Request("namespace_add", FALSE, "nqn1") EXCEPT !.nsid = 1, !.grp = 1,
                                                      !.uuid = "u1"],
      [Request("namespace_delete", TRUE, "nqn1") EXCEPT !.nsid = 1],
      [Request("namespace_change_load_balancing_group", TRUE, "nqn1") EXCEPT
           !.nsid = 1, !.grp = 2],
      [Request("namespace_set_qos_limits", TRUE, "nqn1") EXCEPT
           !.nsid = 1, !.qos = [NoQos EXCEPT !["rw_ios_per_second"] = 10]],
      [Request("add_host", TRUE, "nqn1") EXCEPT !.host = "host1"],
      [Request("remove_host", TRUE, "nqn1") EXCEPT !.host = "host1"],
      [Request("create_listener", TRUE, "nqn1") EXCEPT
           !.gw = GatewayName, !.addr = "a1"],
      [Request("delete_listener", TRUE, "nqn1") EXCEPT
           !.gw = GatewayName, !.addr = "a1"],
      Request("list_subsystems", TRUE, "nqn1"),
      Request("get_spdk_nvmf_log_flags_and_level", TRUE, "nqn1"),
      Request("list_namespaces", TRUE, "nqn1"),
      [Request("namespace_get_io_stats", TRUE, "nqn1") EXCEPT !.nsid = 1],
      [Request("namespace_resize", TRUE, "nqn1") EXCEPT !.nsid = 1] }

\* A gRPC worker (or the replay of a peer's change) calls a facade method
\* with a request of R.
StartFrom(t, R) ==
    /\ pc[t] = "idle"
    /\ nops < MaxOps
    /\ \E req \in R :
         /\ SetFrame(t, [req EXCEPT !.fn = req.op])
         /\ Goto(t, EntryLabel(req.op))
         /\ ev' = [Event(t, "call", req.op, TRUE) EXCEPT
                       !.live = req.ctx, !.clean = ev.clean /\ req.ctx]
    /\ nops' = nops + 1
    /\ UNCHANGED <<eng, omap, nfaults>>
    /\ UnchangedLocks /\ UnchangedPool

Start(t) == StartFrom(t, ConcurrentRequests)

\* The steps of a worker inside a facade method.
Step(t) ==
    \/ ExecuteAcquireOmap(t)
    \/ RpcLockAcquire(t)
    \/ RpcLockRelease(t)
    \/ ExecuteReleaseOmap(t)
    \/ OmapLockEnter(t)
    \/ OmapLockExit(t)
    \/ Return(t)
    \/ CreateSubsystemValidate(t)
    \/ CreateSubsystemCheck(t)
    \/ CreateSubsystemCall(t)
    \/ CreateSubsystemPersist(t)
    \/ DeleteSubsystemEntry(t)
    \/ DeleteSubsystemLoop(t)
    \/ DeleteSubsystemCall(t)
    \/ RemoveFromState(t)
    \/ GetCluster(t)
    \/ NamespaceAddStart(t)
    \/ CreateBdev(t)
    \/ DeleteBdev(t)
    \/ CreateNamespace(t)
    \/ NamespaceAddPersist(t)
    \/ FindNamespace(t)
    \/ RemoveNamespace(t)
    \/ RemoveNamespaceQosFromState(t)
    \/ RemoveNamespaceFromState(t)
    \/ ChangeGroupRead(t)
    \/ ChangeGroupPersist(t)
    \/ HostValidate(t)
    \/ AddHostCheck(t)
    \/ AddHostCall(t)
    \/ AddHostPersist(t)
    \/ RemoveHostCall(t)
    \/ ListenerValidate(t)
    \/ CreateListenerCheck(t)
    \/ CreateListenerCall(t)
    \/ CreateListenerHa(t)
    \/ CreateListenerAna(t)
    \/ CreateListenerPersist(t)
    \/ DeleteListenerCall(t)
    \/ SetQosRead(t)
    \/ SetQosCall(t)
    \/ SetQosPersist(t)
    \/ QueryCall(t)
    \/ QueryHaStatus(t)
    \/ ListNamespacesGet(t)
    \/ ListNamespacesLoop(t)
    \/ GetBdevInfo(t)
    \/ GetIoStats(t)
    \/ ResizeEntry(t)
    \/ ResizeBdev(t)

\* Two workers race.
Next == \E t \in Threads : Start(t) \/ Step(t)

Spec == Init /\ [][Next]_vars

\* One worker runs operations one after the other, with every request.
StartSeq == StartFrom("w1", Requests)

NextSeq == StartSeq \/ Step("w1")

SpecSeq == Init /\ [][NextSeq]_vars

\* One worker sets QOS limits again and again on a namespace that exists.
\* The state to start from is the one a live create_subsystem(nqn1, SPDK2)
\* and a live namespace_add(nqn1, nsid 1, uuid u1, group 1) leave behind.
InitQos ==
    /\ pc = [t \in Threads |-> "idle"]
    /\ fr = [t \in Threads |-> IdleFrame]
    /\ rpc_lock = NoThread
    /\ omap_lock = FreeOmapLock
    /\ eng = EngAddNs(EngCreateBdev(EngRegisterCluster(
                  EngCreateSubsystem(EmptyEngine, "nqn1", "SPDK2"), 0),
                  find_unique_bdev_name("u1"), 0),
                  "nqn1", find_unique_bdev_name("u1"), 1, 1, "u1")
    /\ omap = StateAddNamespace(StateAddSubsystem(EmptyState, "nqn1", "SPDK2", FALSE),
                                "nqn1", 1, 1, "u1", 1)
    /\ clusters = <<1>>
    /\ current_cluster = 0
    /\ alloc_failed = FALSE
    /\ nops = 0
    /\ nfaults = 0
    /\ ev = NoEvent

\* Limits a request sets: none, one field, two fields, or all four.
QosSeqLimits ==
    { [x \in QosFields |-> IF x \in S THEN v ELSE -1] :
      S \in { {}, {"rw_ios_per_second"}, {"rw_mbytes_per_second"},
              {"rw_ios_per_second", "rw_mbytes_per_second"}, QosFields },
      v \in {10, 20} }

QosSeqRequests ==
    { [Request("namespace_set_qos_limits", ctx, "nqn1") EXCEPT !.nsid = 1, !.qos = q] :
      ctx \in BOOLEAN, q \in QosSeqLimits }

StartQos == StartFrom("w1", QosSeqRequests)

NextQos ==
    \/ StartQos
    \/ ExecuteAcquireOmap("w1")
    \/ RpcLockAcquire("w1")
    \/ FindNamespace("w1")
    \/ SetQosRead("w1")
    \/ OmapLockEnter("w1")
    \/ SetQosCall("w1")
    \/ SetQosPersist("w1")
    \/ OmapLockExit("w1")
    \/ RpcLockRelease("w1")
    \/ ExecuteReleaseOmap("w1")
    \/ Return("w1")

SpecQos == InitQos /\ [][NextQos]_vars

\* One worker runs the operations that look a namespace up, on a subsystem
\* that holds two namespaces.  The state to start from is the one a live
\* create_subsystem(nqn1, SPDK2), a live namespace_add(nqn1, nsid 1, no uuid,
\* group 1) and a live namespace_add(nqn1, nsid 2, uuid u1, group 1) leave
\* behind.
InitFind ==
    /\ pc = [t \in Threads |-> "idle"]
    /\ fr = [t \in Threads |-> IdleFrame]
    /\ rpc_lock = NoThread
    /\ omap_lock = FreeOmapLock
    /\ eng = EngAddNs(EngCreateBdev(
                  EngAddNs(EngCreateBdev(EngRegisterCluster(
                      EngCreateSubsystem(EmptyEngine, "nqn1", "SPDK2"), 0),
                      find_unique_bdev_name("r1"), 0),
                      "nqn1", find_unique_bdev_name("r1"), 1, 1, "r1"),
                  find_unique_bdev_name("u1"), 0),
                  "nqn1", find_unique_bdev_name("u1"), 2, 1, "u1")
    /\ omap = StateAddNamespace(
                  StateAddNamespace(
                      StateAddSubsystem(EmptyState, "nqn1", "SPDK2", FALSE),
                      "nqn1", 1, 1, "r1", 1),
                  "nqn1", 2, 2, "u1", 1)
    /\ clusters = <<2>>
    /\ current_cluster = 0
    /\ alloc_failed = FALSE
    /\ nops = 0
    /\ nfaults = 0
    /\ ev = NoEvent

\* (nsid, uuid) pairs of the lookups: none, one identifier, both of one
\* namespace, one of each namespace.
FindRefs == {<<0, "">>, <<1, "">>, <<0, "u1">>, <<2, "u1">>, <<1, "u1">>}

FindRequests ==
    { [Request(op, TRUE, "nqn1") EXCEPT
           !.nsid = r[1], !.uuid = r[2],
           !.grp = IF op = "namespace_change_load_balancing_group" THEN 2 ELSE 0,
           !.qos = IF op = "namespace_set_qos_limits"
                   THEN [NoQos EXCEPT !["rw_ios_per_second"] = 10] ELSE NoQos] :
      op \in {"namespace_delete", "namespace_change_load_balancing_group",
              "namespace_set_qos_limits", "namespace_resize"},
      r \in FindRefs }

StartFind == StartFrom("w1", FindRequests)

NextFind ==
    \/ StartFind
    \/ ExecuteAcquireOmap("w1")
    \/ RpcLockAcquire("w1")
    \/ OmapLockEnter("w1")
    \/ FindNamespace("w1")
    \/ RemoveNamespace("w1")
    \/ RemoveNamespaceQosFromState("w1")
    \/ RemoveNamespaceFromState("w1")
    \/ DeleteBdev("w1")
    \/ ChangeGroupRead("w1")
    \/ CreateNamespace("w1")
    \/ ChangeGroupPersist("w1")
    \/ SetQosRead("w1")
    \/ SetQosCall("w1")
    \/ SetQosPersist("w1")
    \/ ResizeEntry("w1")
    \/ ResizeBdev("w1")
    \/ OmapLockExit("w1")
    \/ RpcLockRelease("w1")
    \/ ExecuteReleaseOmap("w1")
    \/ Return("w1")

SpecFind == InitFind /\ [][NextFind]_vars

\* Two workers race a resize with the operations that take a namespace away,
\* on the namespace InitQos starts with.
ResizeRaceRequests ==
    { [Request("namespace_resize", TRUE, "nqn1") EXCEPT !.nsid = 1],
      [Request("namespace_delete", TRUE, "nqn1") EXCEPT !.nsid = 1],
      [Request("namespace_change_load_balancing_group", TRUE, "nqn1") EXCEPT
           !.nsid = 1, !.grp = 2] }

StartResizeRace(t) == StartFrom(t, ResizeRaceRequests)

NextResizeRace ==
    \E t \in Threads :
        \/ StartResizeRace(t)
        \/ ResizeEntry(t)
        \/ ResizeBdev(t)
        \/ ExecuteAcquireOmap(t)
        \/ RpcLockAcquire(t)
        \/ OmapLockEnter(t)
        \/ FindNamespace(t)
        \/ RemoveNamespace(t)
        \/ RemoveNamespaceQosFromState(t)
        \/ RemoveNamespaceFromState(t)
        \/ DeleteBdev(t)
        \/ ChangeGroupRead(t)
        \/ CreateNamespace(t)
        \/ ChangeGroupPersist(t)
        \/ OmapLockExit(t)
        \/ RpcLockRelease(t)
        \/ ExecuteReleaseOmap(t)
        \/ Return(t)

SpecResizeRace == InitQos /\ [][NextResizeRace]_vars


----------------------------------------------------------------------------
\* Properties.

Other(t) == CHOOSE u \in Threads : u # t

\* C1: every engine call, of any operation in either mode, is made by a
\* worker that holds rpc_lock as it makes the call; rpc_lock has one holder,
\* so at most one worker is inside an engine call at any moment.
C1_EngineCallsUnderRpcLock == ev.kind = "eng" => ev.rpc

\* C1, the case: the lookup of a resize reaches the engine while the other
\* worker, inside a mutating operation, holds the distributed lock and waits
\* for rpc_lock.
C1_Witness ==
    /\ ev.kind = "eng"
    /\ ev.name = "nvmf_get_subsystems"
    /\ fr[ev.t].op = "namespace_resize"
    /\ ev.rpc
    /\ pc[Other(ev.t)] = "rpc_acq"
    /\ omap_lock.owner = Other(ev.t)

\* C2: in live mode every read and every write of the persisted record is
\* made by a worker that holds the distributed lock, and that has not
\* released the lock since the first engine call of its operation.
C2_RecordUnderOmapLock ==
    (ev.live /\ ev.kind \in {"read", "add", "rem"}) => (ev.omp /\ ~ev.gap)

\* C3: the first acquisition of the distributed lock is never attempted by a
\* worker that holds rpc_lock, and the acquisition made inside a body (with
\* rpc_lock held) is a re-entry for the owner: no worker waits for the
\* distributed lock while it holds rpc_lock.
C3_LockOrder ==
    \A t \in Threads :
        /\ pc[t] = "omap_acq" => rpc_lock # t
        /\ pc[t] = "omap_in" => (rpc_lock = t /\ omap_lock.owner = t)
        /\ (rpc_lock = t /\ fr[t].op \in ExecuteOps \cup {"delete_subsystem"})
               => omap_lock.owner = t

\* C3, the case: a worker waits for the distributed lock that the other
\* worker holds together with rpc_lock.
C3_Witness ==
    \E t \in Threads :
        /\ pc[t] = "omap_acq"
        /\ omap_lock.owner = Other(t)
        /\ rpc_lock = Other(t)
        /\ pc[Other(t)] = "omap_in"

\* C4: a worker that has returned from an operation holds neither rpc_lock
\* nor the distributed lock, whatever the exit path, and the distributed lock
\* is given back by a worker that no longer holds rpc_lock.
C4_LocksReleasedOnReturn ==
    /\ \A t \in Threads :
           pc[t] \in {"done", "idle"} => (rpc_lock # t /\ omap_lock.owner # t)
    /\ (ev.kind = "rel" /\ ev.name = "omap") => ~ev.rpc

\* C4, the case: an operation returns an error after a failed engine call.
C4_Witness ==
    \E t \in Threads :
        /\ pc[t] = "done"
        /\ fr[t].op = "namespace_delete"
        /\ fr[t].efail # {}
        /\ fr[t].status = EINVAL
        /\ rpc_lock = NoThread
        /\ omap_lock = FreeOmapLock

\* What the persisted record lists and what the engine lists, as sets of
\* identities: subsystems, namespaces, hosts, listeners.
RecordView ==
    [subsys |-> {x.nqn : x \in omap.subsys},
     ns     |-> {<<n.nqn, n.key>> : n \in omap.ns},
     host   |-> omap.host,
     lsnr   |-> {<<l.nqn, l.addr>> : l \in omap.lsnr}]

EngineView ==
    [subsys |-> {x.nqn : x \in eng.subsys},
     ns     |-> {<<n.nqn, n.nsid>> : n \in eng.ns},
     host   |-> eng.hosts \cup {<<nqn, "*">> : nqn \in eng.anyhost},
     lsnr   |-> {<<l.nqn, l.addr>> : l \in eng.lsnr}]

\* C5: in a live execution in which no engine call and no store write has
\* failed, whenever no operation is in progress the persisted record and the
\* engine list the same subsystems, namespaces, hosts and listeners.
C5_RecordMatchesEngine ==
    (ev.clean /\ \A t \in Threads : pc[t] = "idle") => RecordView = EngineView

\* C6: an entry is added to the persisted record only by an operation whose
\* engine call for that resource has returned a successful result before.
C6_AddAfterEngineSuccess == ev.kind = "add" => (ev.engok /\ ev.live)

\* C6, the case: the QoS limits of a namespace are written to the record.
C6_Witness ==
    /\ ev.kind = "add"
    /\ ev.name = "namespace_qos"
    /\ ev.ok
    /\ omap.qos # {}

\* C7: a step of an operation that runs in replay mode leaves the persisted
\* record as it is and never answers "already exists".
C7_ReplayLeavesRecord ==
    [][\A t \in Threads :
          (ev'.t = t /\ pc[t] # "idle" /\ ~fr[t].ctx)
              => (omap' = omap /\ fr'[t].status # EEXIST)]_vars

\* C7, the case: a replayed create-subsystem reaches the engine although its
\* serial number is in the record under another NQN.
C7_Witness ==
    /\ ev.kind = "eng"
    /\ ev.name = "nvmf_create_subsystem"
    /\ ev.ok
    /\ ~ev.live
    /\ \E x \in omap.subsys :
           x.serial = fr[ev.t].serial /\ x.nqn # fr[ev.t].nqn

\* The identity a live delete operation is about was present in the record
\* and in the engine when the operation took the locks.
DeleteTargetPresent(f) ==
    CASE f.fn = "delete_subsystem" ->
            (\E x \in f.snapO.subsys : x.nqn = f.nqn) /\ EngHasSubsys(f.snapE, f.nqn)
      [] f.fn = "namespace_delete" ->
            /\ f.nsid > 0
            /\ \E n \in f.snapO.ns : n.nqn = f.nqn /\ n.key = f.nsid
            /\ EngHasNs(f.snapE, f.nqn, f.nsid)
      [] f.fn = "remove_host" ->
            /\ <<f.nqn, f.host>> \in f.snapO.host
            /\ IF f.host = "*" THEN f.nqn \in f.snapE.anyhost
               ELSE <<f.nqn, f.host>> \in f.snapE.hosts
      [] f.fn = "delete_listener" ->
            /\ f.gw = GatewayName
            /\ StateListener(f.nqn, f.gw, f.addr) \in f.snapO.lsnr
            /\ EngListener(f.nqn, f.addr) \in f.snapE.lsnr
      [] OTHER -> FALSE

\* That identity is in neither the record nor the engine.
DeleteTargetGone(f) ==
    CASE f.fn = "delete_subsystem" ->
            (\A x \in omap.subsys : x.nqn # f.nqn) /\ ~EngHasSubsys(eng, f.nqn)
      [] f.fn = "namespace_delete" ->
            (\A n \in omap.ns : ~(n.nqn = f.nqn /\ n.key = f.nsid))
               /\ ~EngHasNs(eng, f.nqn, f.nsid)
      [] f.fn = "remove_host" ->
            /\ <<f.nqn, f.host>> \notin omap.host
            /\ IF f.host = "*" THEN f.nqn \notin eng.anyhost
               ELSE <<f.nqn, f.host>> \notin eng.hosts
      [] f.fn = "delete_listener" ->
            /\ StateListener(f.nqn, f.gw, f.addr) \notin omap.lsnr
            /\ EngListener(f.nqn, f.addr) \notin eng.lsnr
      [] OTHER -> TRUE

\* C8: when the body of a live delete operation has returned, the identity
\* it deleted (created before, present in record and engine) is in neither
\* the persisted record nor the engine, whether or not the engine call
\* failed (the store accepted every write of the operation).
C8_DeletedIsGone ==
    \A t \in Threads :
        (pc[t] = "rpc_rel" /\ fr[t].ctx /\ ~fr[t].sfail
             /\ DeleteTargetPresent(fr[t]))
            => DeleteTargetGone(fr[t])

\* A live create-subsystem request that passes validation and whose NQN, or
\* whose serial number under another NQN, was in the record when it took the
\* locks.
DuplicateCreate(f) ==
    /\ f.fn = "create_subsystem"
    /\ f.ctx
    /\ CreateSubsystemInvalid(f) = NoStatus
    /\ \/ \E x \in f.snapO.subsys : x.nqn = f.nqn
       \/ \E x \in f.snapO.subsys : x.serial = f.serial /\ x.nqn # f.nqn

\* C9, as stated: when the body of a live create-subsystem returns whose NQN,
\* or whose serial number under another NQN, was in the record when it took
\* the locks, its status is EEXIST, it has made no engine call, and the
\* engine and the record are as they were.
C9_DuplicateAlwaysConflict ==
    \A t \in Threads :
        (/\ pc[t] = "rpc_rel"
         /\ fr[t].fn = "create_subsystem"
         /\ fr[t].ctx
         /\ \/ \E x \in fr[t].snapO.subsys : x.nqn = fr[t].nqn
            \/ \E x \in fr[t].snapO.subsys :
                   x.serial = fr[t].serial /\ x.nqn # fr[t].nqn)
            => /\ fr[t].status = EEXIST
               /\ fr[t].ncalls = 0
               /\ eng = fr[t].snapE
               /\ omap = fr[t].snapO

\* C9, amended: when the body of a duplicate create-subsystem that passes
\* the input validation returns, its status is
\* EEXIST, it has made no engine call, and the engine and the record are as
\* they were when it took the locks.
C9_DuplicateCreateRejected ==
    \A t \in Threads :
        (pc[t] = "rpc_rel" /\ DuplicateCreate(fr[t]))
            => /\ fr[t].status = EEXIST
               /\ fr[t].ncalls = 0
               /\ eng = fr[t].snapE
               /\ omap = fr[t].snapO

\* C9, the case: the serial number is in the record under another NQN.
C9_Witness ==
    \E t \in Threads :
        /\ pc[t] = "rpc_rel"
        /\ DuplicateCreate(fr[t])
        /\ \A x \in omap.subsys : x.nqn # fr[t].nqn
        /\ fr[t].status = EEXIST

\* C11: when the body of a change of load-balancing group returns success,
\* the engine lists the namespace under the same NSID with the UUID and the
\* device it had and the requested group, and lists every other namespace as
\* before; the record keeps the entry with its NSID and UUID and the
\* requested group (live), or is as it was (replay).
C11_ChangeGroupKeepsIdentity ==
    \A t \in Threads :
        (/\ pc[t] = "rpc_rel"
         /\ fr[t].fn = "namespace_change_load_balancing_group"
         /\ fr[t].status = 0)
            => LET f == fr[t]
                   Mine(S) == {n \in S : n.nqn = f.nqn /\ n.nsid = f.fnsid}
                   Keyed(S) == {n \in S : n.nqn = f.nqn /\ n.key = f.fnsid}
                   Regrouped(S) == {[n EXCEPT !.grp = f.grp] : n \in S}
               IN  /\ Mine(f.snapE.ns) # {}
                   /\ Mine(eng.ns) = Regrouped(Mine(f.snapE.ns))
                   /\ eng.ns \ Mine(eng.ns) = f.snapE.ns \ Mine(f.snapE.ns)
                   /\ eng.bdevs = f.snapE.bdevs
                   /\ IF f.ctx
                      THEN /\ Keyed(omap.ns) = Regrouped(Keyed(f.snapO.ns))
                           /\ Keyed(omap.ns) # {}
                           /\ omap.ns \ Keyed(omap.ns)
                                  = f.snapO.ns \ Keyed(f.snapO.ns)
                      ELSE omap = f.snapO

\* C11, the case: a live change of group, asked for by NSID alone, has moved
\* a namespace whose NSID the engine had assigned to another group.
C11_Witness ==
    \E t \in Threads :
        /\ pc[t] = "rpc_rel"
        /\ fr[t].fn = "namespace_change_load_balancing_group"
        /\ fr[t].status = 0
        /\ fr[t].ctx
        /\ fr[t].uuid = ""
        /\ \E n \in omap.ns :
               /\ n.nqn = fr[t].nqn /\ n.key = fr[t].fnsid
               /\ n.nsid = 0
               /\ n.grp = fr[t].grp
               /\ \E m \in fr[t].snapO.ns : m.key = n.key /\ m.grp # n.grp

\* The failures of the attachment (create_namespace) in an add-namespace
\* whose backing device had been created.
AttachFailures(f) ==
    IF f.fn = "namespace_add" /\ f.fuuid # ""
    THEN {e \in f.efail : e.name \in {"nvmf_subsystem_add_ns", "create_namespace"}}
    ELSE {}

\* C10: when the body of an add-namespace whose attachment failed returns,
\* the device is not in the engine, nothing was written to the record, and
\* the status is the attachment error.
C10_DeviceAlwaysAbsent ==
    \A t \in Threads :
        (pc[t] = "rpc_rel" /\ AttachFailures(fr[t]) # {})
            => /\ fr[t].bdev \notin EngBdevNames(eng)
               /\ ~fr[t].wrote /\ omap = fr[t].snapO
               /\ \E e \in AttachFailures(fr[t]) : fr[t].status = e.code

\* C12: an add-namespace or a change of group whose requested group id is
\* outside 1 .. MAX_ANA_GROUPS never holds the distributed lock nor rpc_lock,
\* makes no engine call, and returns an error.
C12_GroupRangeRejectedUnlocked ==
    \A t \in Threads :
        (/\ pc[t] # "idle"
         /\ fr[t].op \in {"namespace_add", "namespace_change_load_balancing_group"}
         /\ fr[t].grp \notin 1 .. MAX_ANA_GROUPS)
            => /\ rpc_lock # t
               /\ omap_lock.owner # t
               /\ fr[t].ncalls = 0
               /\ pc[t] = "done" => fr[t].status \notin {0, NoStatus}

\* C13: a live delete-subsystem without force, called while the record holds
\* a namespace of the subsystem, returns EBUSY in one step: it has made no
\* engine call, and the engine and the record are as they were.
C13_BusyWithoutForce ==
    [][\A t \in Threads :
          (/\ pc[t] = "ds_entry"
           /\ pc'[t] # "ds_entry"
           /\ fr[t].ctx
           /\ ~fr[t].force
           /\ \E n \in omap.ns : n.nqn = fr[t].nqn)
              => /\ pc'[t] = "done"
                 /\ fr'[t].status = EBUSY
                 /\ fr'[t].ncalls = 0
                 /\ eng' = eng
                 /\ omap' = omap]_vars

\* C13, the case: the call has returned EBUSY and the namespace is still in
\* the engine and in the record.
C13_Witness ==
    \E t \in Threads :
        /\ pc[t] = "done"
        /\ fr[t].op = "delete_subsystem"
        /\ fr[t].ctx /\ ~fr[t].force
        /\ fr[t].status = EBUSY
        /\ \E n \in omap.ns : n.nqn = fr[t].nqn
        /\ \E n \in eng.ns : n.nqn = fr[t].nqn

\* C14: a live delete-subsystem with force that found namespaces of the
\* subsystem in the record, in a run without any failed engine call or store
\* write, returns success, and then neither the engine nor the record lists
\* the subsystem or any namespace of it.
C14_ForcedDeleteRemovesAll ==
    \A t \in Threads :
        (/\ pc[t] = "done"
         /\ fr[t].op = "delete_subsystem"
         /\ fr[t].ctx /\ fr[t].force
         /\ Len(fr[t].ns_list) > 0
         /\ ev.clean)
            => /\ fr[t].status = 0
               /\ ~EngHasSubsys(eng, fr[t].nqn)
               /\ \A n \in eng.ns : n.nqn # fr[t].nqn
               /\ \A x \in omap.subsys : x.nqn # fr[t].nqn
               /\ \A n \in omap.ns : n.nqn # fr[t].nqn

----------------------------------------------------------------------------
\* The groups whose access state is "inaccessible" on the listener.
AnaSet(e, nqn, addr) == {a.grp : a \in {b \in e.ana : b.nqn = nqn /\ b.addr = addr}}

\* C15: a create-listener that is about to write the listener to the record,
\* or has returned status 0, has set the state "inaccessible" for each of the
\* groups 1..4 on the listener when the subsystem has HA enabled, and has
\* issued no call but the add-listener one when the subsystem has no HA.
C15_HaListenerInaccessible ==
    \A t \in Threads :
        (/\ fr[t].fn = "create_listener"
         /\ \/ pc[t] = "cl_persist"
            \/ pc[t] \in {"omap_out", "rpc_rel"} /\ fr[t].status = 0)
            => IF StateSubsystemHa(fr[t].nqn)
               THEN /\ EngListener(fr[t].nqn, fr[t].addr) \in eng.lsnr
                    /\ 1 .. MAX_ANA_GROUPS \subseteq AnaSet(eng, fr[t].nqn, fr[t].addr)
               ELSE fr[t].ncalls = 1

\* The set-state call of a create-listener that failed, if one did.
SetAnaStateFailures(f) ==
    {e \in f.efail : e.name = "nvmf_subsystem_listener_set_ana_state"}

\* C16: once a set-state call of a create-listener has failed, for group k,
\* the operation is on its way out with a non-zero status: until it returns
\* it issues no further engine call (no set-state call for a group after k,
\* no remove-listener), writes nothing to the record, and the listener it
\* added stays in the engine.
C16_AnaFailureAborts ==
    [][\A t \in Threads :
          (/\ fr[t].fn = "create_listener"
           /\ SetAnaStateFailures(fr[t]) # {}
           /\ pc[t] \notin {"done", "idle"})
              => /\ fr[t].status \notin {0, NoStatus}
                 /\ fr'[t].status = fr[t].status
                 /\ fr'[t].ncalls = fr[t].ncalls
                 /\ eng' = eng /\ omap' = omap
                 /\ EngListener(fr[t].nqn, fr[t].addr) \in eng.lsnr]_vars

\* A listener request that passes the enum and discovery checks.
ListenerWellFormed(f) == f.bad = "" /\ f.nqn # DISCOVERY_NQN

\* C17 (amended): a create-listener or delete-listener, live or replay, whose
\* gateway_name is not this gateway's returns with a non-zero status (ENOENT
\* when the request passes the enum and discovery checks made before the
\* gateway test), having issued no engine call and left the engine and the
\* record as they were.
C17_ForeignGatewayRejected ==
    \A t \in Threads :
        (/\ pc[t] = "done"
         /\ fr[t].op \in {"create_listener", "delete_listener"}
         /\ fr[t].gw # GatewayName)
            => /\ fr[t].status \notin {0, NoStatus}
               /\ ListenerWellFormed(fr[t]) => fr[t].status = ENOENT
               /\ fr[t].ncalls = 0
               /\ ~fr[t].wrote
               /\ eng = fr[t].snapE
               /\ omap = fr[t].snapO

\* The statement without the amendment: ENOENT whatever else is wrong with
\* the request.
C17_ForeignGatewayAlwaysENOENT ==
    \A t \in Threads :
        (/\ pc[t] = "done"
         /\ fr[t].op \in {"create_listener", "delete_listener"}
         /\ fr[t].gw # GatewayName)
            => /\ fr[t].status = ENOENT
               /\ fr[t].ncalls = 0
               /\ ~fr[t].wrote
               /\ eng = fr[t].snapE
               /\ omap = fr[t].snapO

\* A replayed delete-listener naming another gateway has returned ENOENT while
\* the engine holds a listener at that address.
C17_Witness ==
    \E t \in Threads :
        /\ pc[t] = "done"
        /\ fr[t].op = "delete_listener" /\ ~fr[t].ctx
        /\ fr[t].gw # GatewayName
        /\ fr[t].status = ENOENT
        /\ EngListener(fr[t].nqn, fr[t].addr) \in eng.lsnr

\* The operations that create, delete or update, and the engine calls that
\* only read.
MutatingOps ==
    {"create_subsystem", "delete_subsystem", "namespace_add", "namespace_delete",
     "namespace_change_load_balancing_group", "namespace_set_qos_limits",
     "namespace_resize", "add_host", "remove_host",
     "create_listener", "delete_listener"}

ReadOnlyCalls == {"nvmf_get_subsystems", "bdev_get_bdevs", "bdev_get_iostat"}

\* The request names the discovery NQN as its subsystem, or as the host of an
\* add-host or remove-host.
DiscoveryTarget(f) ==
    /\ f.op \in MutatingOps
    /\ \/ f.nqn = DISCOVERY_NQN
       \/ f.op \in {"add_host", "remove_host"} /\ f.host = DISCOVERY_NQN

\* C18: no step of an operation whose target is the discovery NQN is a
\* mutating engine call or changes the engine, the cluster-context counters
\* or the record, and the operation returns with a non-zero status.
C18_DiscoveryRejected ==
    [][\A t \in Threads :
          (ev'.t = t /\ pc[t] \notin {"idle", "done"} /\ DiscoveryTarget(fr[t]))
              => /\ ev'.kind = "eng" => ev'.name \in ReadOnlyCalls
                 /\ eng' = eng
                 /\ clusters' = clusters
                 /\ current_cluster' = current_cluster
                 /\ omap' = omap
                 /\ pc'[t] = "done" => fr'[t].status \notin {0, NoStatus}]_vars

\* The request fails the input validation of its operation.
InvalidRequest(f) ==
    CASE f.op = "create_subsystem" -> CreateSubsystemInvalid(f) # NoStatus
      [] f.op = "delete_subsystem" -> f.nqn = DISCOVERY_NQN
      [] f.op \in {"add_host", "remove_host"} -> HostInvalid(f) # NoStatus
      [] f.op \in {"create_listener", "delete_listener"} ->
             ListenerInvalid([f EXCEPT !.fn = f.op]) # NoStatus
      [] OTHER -> FALSE

\* C19: an operation whose request fails input validation never holds the
\* distributed lock nor rpc_lock, makes no engine call, and returns EINVAL.
C19_InvalidRejectedUnlocked ==
    \A t \in Threads :
        (pc[t] # "idle" /\ InvalidRequest(fr[t]))
            => /\ rpc_lock # t
               /\ omap_lock.owner # t
               /\ fr[t].ncalls = 0
               /\ pc[t] = "done" => fr[t].status = EINVAL

\* The query operations of the model.
AllQueryOps == QueryOps \cup {"list_namespaces", "namespace_get_io_stats"}

\* C20: no step of a query operation takes or holds the distributed lock, and
\* none changes the engine or the record; the only lock a query holds is
\* rpc_lock.
C20_QueriesRpcLockOnly ==
    [][\A t \in Threads :
          (ev'.t = t /\ pc[t] \notin {"idle", "done"} /\ fr[t].op \in AllQueryOps)
              => /\ omap_lock.owner # t
                 /\ omap_lock'.owner # t
                 /\ eng' = eng
                 /\ omap' = omap]_vars

----------------------------------------------------------------------------
\* C21: when the body of a live operation returns in which a write of the
\* record (an add or a remove of the operation's own entry) failed, after
\* engine calls that all succeeded, the status is EINVAL.
C21_StoreFailureIsEINVAL ==
    \A t \in Threads :
        (/\ pc[t] = "rpc_rel"
         /\ fr[t].ctx
         /\ fr[t].sfail
         /\ fr[t].engok /\ fr[t].efail = {})
            => fr[t].status = EINVAL

\* The mutating engine calls of the operation that failed, by raising or by
\* a falsy result.
MutatingFailures(f) == {e \in f.efail : e.name \notin ReadOnlyCalls}

\* C22: a mutating operation one of whose mutating engine calls failed, by
\* raising or by a falsy result, adds nothing to the record afterwards and
\* returns a non-zero status.
C22_EngineFailureFails ==
    \A t \in Threads :
        (fr[t].op \in MutatingOps /\ MutatingFailures(fr[t]) # {})
            => /\ ~(ev.t = t /\ ev.kind = "add" /\ ev.ok)
               /\ pc[t] = "done" => fr[t].status \notin {0, NoStatus}

\* The steps whose handler does not turn a raised error into the status of
\* the call: the lookups (an error is logged, the namespace or the device
\* counts as not found) and the best-effort deletion of a device.
UntranslatedSteps ==
    {"nd_find", "lb_find", "sq_find", "io_find", "rs_get", "gb_get",
     "na_bdev_cleanup", "na_ns_cleanup"}

\* The status the translation is to give for a raised error: the absolute
\* value of the code of a structured error, EINVAL without one.
TranslatedStatus(ex) ==
    IF ex.cls = "JSONRPCException" /\ ex.marker
    THEN (IF ex.code < 0 THEN -ex.code ELSE ex.code)
    ELSE EINVAL

\* C23: when an engine call of a mutating or query operation raises, the
\* status of the call is the absolute value of the code of the structured
\* error, and EINVAL when the error carries none.
C23_RaisedErrorStatus ==
    [][\A t \in Threads :
          \A e \in fr'[t].efail \ fr[t].efail :
              (e.out.res = "exc" /\ pc[t] \notin UntranslatedSteps)
                  => fr'[t].status = TranslatedStatus(e.out.ex)]_vars

RECURSIVE SumSeq(_)
SumSeq(q) == IF q = <<>> THEN 0 ELSE Head(q) + SumSeq(Tail(q))

\* C24: every counter of the pool is in 1 .. bdevs_per_cluster and none ever
\* decreases; _get_cluster registers a new context exactly when there is no
\* current context or the counter of the current one has reached
\* bdevs_per_cluster, under a name no context has yet; and as long as no
\* allocation has failed, the i-th call returns context (i-1) \div
\* bdevs_per_cluster.
C24_ClusterPool ==
    /\ [](\A j \in 1 .. Len(clusters) : clusters[j] \in 1 .. bdevs_per_cluster)
    /\ [][/\ Len(clusters') >= Len(clusters)
          /\ \A j \in 1 .. Len(clusters) : clusters'[j] >= clusters[j]
          /\ \A t \in Threads :
                (pc[t] = "cb_cluster" /\ pc'[t] # "cb_cluster")
                    => /\ (ev'.name = "bdev_rbd_register_cluster")
                             <=> (\/ current_cluster = NoCluster
                                  \/ clusters[current_cluster + 1] = bdevs_per_cluster)
                       /\ Len(clusters') > Len(clusters)
                             => /\ fr'[t].cluster \notin eng.regs
                                /\ fr'[t].cluster \notin 0 .. Len(clusters) - 1
                       /\ ~alloc_failed'
                             => /\ SumSeq(clusters') = SumSeq(clusters) + 1
                                /\ fr'[t].cluster =
                                       (SumSeq(clusters') - 1) \div bdevs_per_cluster]_vars

\* C24, the case: with no allocation failed, a call of _get_cluster has
\* returned the second context, the first one being full.
C24_Witness ==
    \E t \in Threads :
        /\ pc[t] = "cb_create"
        /\ ~alloc_failed
        /\ fr[t].cluster = 1
        /\ clusters = <<bdevs_per_cluster, 1>>

\* The registration of a new context has raised in the add-namespace of f.
RegisterFailed(f) ==
    /\ f.op = "namespace_add"
    /\ \E e \in f.efail : e.name = "bdev_rbd_register_cluster" /\ e.out.res = "exc"

\* C25: an add-namespace whose registration of a new context raised creates
\* no device, changes no counter of the pool, writes nothing to the record,
\* and returns a status other than 0.
C25_RegisterFailureAborts ==
    /\ [](\A t \in Threads :
            RegisterFailed(fr[t])
                => /\ eng.bdevs = fr[t].snapE.bdevs
                   /\ ~fr[t].wrote /\ omap = fr[t].snapO
                   /\ pc[t] = "done" => fr[t].status > 0)
    /\ [][\A t \in Threads :
              RegisterFailed(fr'[t]) => clusters' = clusters]_vars

\* C26: a live set-QoS that succeeds stores, for each of the four limits, the
\* value of the request when the request sets the limit and the value stored
\* before when it does not; the engine is handed the limits the request sets
\* and no other.
C26_QosMerge ==
    [][\A t \in Threads :
          /\ (ev'.t = t /\ ev'.kind = "eng" /\ ev'.name = "bdev_set_qos_limit")
                => \A x \in QosFields : fr'[t].args[x] = fr[t].entry[1][x]
          /\ (ev'.t = t /\ ev'.kind = "add" /\ ev'.name = "namespace_qos" /\ ev'.ok)
                => \A x \in QosFields :
                      StateQosLimits(fr[t].nqn, fr[t].fnsid)'[x] =
                         IF fr[t].entry[1][x] # -1 THEN fr[t].entry[1][x]
                         ELSE StateQosLimits(fr[t].nqn, fr[t].fnsid)[x]]_vars

\* C26, the case: a second set-QoS that leaves rw_ios_per_second unset has
\* been stored; the record keeps the 10 of the first request next to the 20
\* the second one set, and the engine was not handed rw_ios_per_second.
C26_Witness ==
    \E t \in Threads :
        /\ pc[t] = "omap_out" /\ fr[t].wrote
        /\ fr[t].entry[1]["rw_ios_per_second"] = -1
        /\ fr[t].args["rw_ios_per_second"] = -1
        /\ fr[t].args["rw_mbytes_per_second"] = 20
        /\ StateQosLimits("nqn1", 1)["rw_ios_per_second"] = 10
        /\ StateQosLimits("nqn1", 1)["rw_mbytes_per_second"] = 20

\* C27: a worker never waits for a lock its own call holds: it is at no
\* `with self.rpc_lock:` while it holds rpc_lock, it is not at the entry of
\* execute_grpc_function while it owns the distributed lock, an inner
\* `with self.omap_lock(...)` is always a re-entry of the owner, and a worker
\* that runs alone inside an operation always has a next step.
C27_NoSelfDeadlock ==
    \A t \in Threads :
        /\ pc[t] \in {"rpc_acq", "ln_acq", "gb_acq", "io_acq", "fn_acq", "rb_acq"}
              => rpc_lock # t
        /\ pc[t] = "omap_acq" => omap_lock.owner # t
        /\ pc[t] = "omap_in" => omap_lock.owner = t /\ rpc_lock = t
        /\ (pc[t] # "idle" /\ rpc_lock \in {NoThread, t}
               /\ omap_lock.owner \in {NoThread, t}) => ENABLED Step(t)

\* C27, the case: inside namespace_delete_safe, with rpc_lock held and the
\* distributed lock re-entered, the lookup find_namespace_and_bdev_name is
\* about to call the engine.
C27_Witness ==
    \E t \in Threads :
        /\ pc[t] = "nd_find"
        /\ rpc_lock = t
        /\ omap_lock = [owner |-> t, depth |-> 2]

\* A live add-host whose (subsystem, host NQN) pair, or a live
\* create-listener whose listener identity (the transport type is part of
\* it), was in the record when the call took the locks.
DuplicateHost(f) ==
    f.op = "add_host" /\ f.ctx /\ <<f.nqn, f.host>> \in f.snapO.host

DuplicateListener(f) ==
    /\ f.op = "create_listener" /\ f.ctx /\ f.bad # "trtype"
    /\ StateListener(f.nqn, f.gw, f.addr) \in f.snapO.lsnr

C29_GroupIdInRange ==
    /\ (ev.kind = "eng" /\ ev.name = "nvmf_subsystem_add_ns")
            => fr[ev.t].grp \in 1 .. MAX_ANA_GROUPS
    /\ \A n \in eng.ns : n.grp \in 1 .. MAX_ANA_GROUPS

\* C30: the one engine call of an add-host or remove-host with host NQN "*"
\* is nvmf_subsystem_allow_any_host, which enables (add) or disables (remove)
\* open access and leaves the host list alone; with any other host NQN it is
\* nvmf_subsystem_add_host, respectively nvmf_subsystem_remove_host, which
\* leaves open access alone.
C30_AnyHostToggle ==
    [][\A t \in Threads :
          (/\ ev'.t = t /\ ev'.kind = "eng"
           /\ fr[t].op \in {"add_host", "remove_host"})
              => /\ fr[t].ncalls = 0
                 /\ IF fr[t].host = "*"
                    THEN /\ ev'.name = "nvmf_subsystem_allow_any_host"
                         /\ eng'.hosts = eng.hosts
                         /\ ev'.ok => (fr[t].nqn \in eng'.anyhost
                                           <=> fr[t].op = "add_host")
                    ELSE /\ ev'.name = IF fr[t].op = "add_host"
                                       THEN "nvmf_subsystem_add_host"
                                       ELSE "nvmf_subsystem_remove_host"
                         /\ eng'.anyhost = eng.anyhost
                         /\ ev'.ok => (<<fr[t].nqn, fr[t].host>> \in eng'.hosts
                                           <=> fr[t].op = "add_host")]_vars

\* C30, the case: a remove-host with host NQN "*" has disabled the open
\* access an add-host with "*" had enabled.
C30_Witness ==
    /\ ev.kind = "eng" /\ ev.ok
    /\ ev.name = "nvmf_subsystem_allow_any_host"
    /\ fr[ev.t].op = "remove_host"
    /\ fr[ev.t].snapE.anyhost = {fr[ev.t].nqn}
    /\ eng.anyhost = {}

\* A live delete-subsystem with force that got past its checks.
ForcedDelete(f) ==
    f.op = "delete_subsystem" /\ f.ctx /\ f.force /\ f.nqn # DISCOVERY_NQN

\* delete_subsystem_safe of the operation of t has made its
\* nvmf_delete_subsystem call.
DeleteSubsystemIssued(t) ==
    /\ fr[t].fn = "delete_subsystem"
    /\ pc[t] \in {"dss_remove", "omap_out", "rpc_rel", "omap_rel", "done"}

\* C31: a forced live delete-subsystem calls nvmf_delete_subsystem only when
\* the deletion of every namespace it read from the record has been run to
\* its end, and it does not return without having made the call, whatever
\* the outcome of those deletions.
C31_ForcedDeleteOrdering ==
    \A t \in Threads :
        ForcedDelete(fr[t])
            => /\ (ev.t = t /\ ev.kind = "eng" /\ ev.name = "nvmf_delete_subsystem")
                     => fr[t].nslist = <<>> /\ fr[t].fn = "delete_subsystem"
               /\ pc[t] = "done" => DeleteSubsystemIssued(t)

\* A live delete-subsystem of t is between its namespace check and the
\* return of its nvmf_delete_subsystem call.
InDeleteSubsystem(t) ==
    /\ fr[t].op = "delete_subsystem" /\ fr[t].ctx
    /\ pc[t] \notin {"idle", "ds_entry", "done"}
    /\ ~DeleteSubsystemIssued(t)

\* The last step was a change of the engine or of the record made by a
\* mutating operation of worker u.
MutatingStepOf(u) ==
    /\ ev.t = u
    /\ fr[u].op \in MutatingOps
    /\ \/ ev.kind \in {"add", "rem"}
       \/ ev.kind = "eng" /\ ev.name \notin ReadOnlyCalls

\* C32: while a live delete-subsystem is between its namespace check and the
\* return of its engine delete, no other worker makes a step of a mutating
\* operation; and when the engine delete of a delete-subsystem without force
\* succeeds, the record holds no namespace of the subsystem.
C32_DeleteSubsystemAtomic ==
    \A t \in Threads :
        /\ InDeleteSubsystem(t) => \A u \in Threads \ {t} : ~MutatingStepOf(u)
        /\ ( /\ ev.t = t /\ ev.kind = "eng" /\ ev.name = "nvmf_delete_subsystem"
             /\ ev.ok /\ fr[t].ctx /\ ~fr[t].force )
              => get_subsystem_namespaces(fr[t].nqn) = <<>>

\* The detach (remove_namespace) of the operation of f failed.
DetachFailed(f) == \E e \in f.efail : e.name = "nvmf_subsystem_remove_ns"

\* The failures of the reattach (create_namespace) of the operation of f.
ReattachFailures(f) ==
    {e \in f.efail : e.name \in {"create_namespace", "nvmf_subsystem_add_ns"}}

\* C33: a change of load-balancing group whose detach succeeded and whose
\* reattach failed returns the reattach error, leaves the namespace out of
\* the engine and (live) out of the record, keeps the device and changes
\* nothing else in the engine; one whose detach failed leaves the record and
\* the engine as they were.
C33_ChangeGroupFailure ==
    \A t \in Threads :
        LET f == fr[t] IN
        (pc[t] = "done" /\ f.op = "namespace_change_load_balancing_group")
            => /\ ReattachFailures(f) # {}
                    => /\ f.status # Unhandled
                       /\ \E e \in ReattachFailures(f) : f.status = e.code
                       /\ ~EngHasNs(eng, f.nqn, f.fnsid)
                       /\ f.ctx => StateNamespaceEntry(f.nqn, f.fnsid) = <<>>
                       /\ f.bdev \in EngBdevNames(eng)
                       /\ eng = EngRemoveNs(f.snapE, f.nqn, f.fnsid)
               /\ DetachFailed(f) => (omap = f.snapO /\ eng = f.snapE)

\* The operations that start with find_namespace_and_bdev_name.
LookupOps ==
    {"namespace_delete", "namespace_change_load_balancing_group",
     "namespace_set_qos_limits", "namespace_resize"}

\* Namespace n of an engine reply has every identifier that is given.
NsMatches(n, nsid, uuid) ==
    /\ nsid > 0 => n.nsid = nsid
    /\ uuid # "" => n.uuid = uuid

\* The lookup of the operation of f cannot succeed: its engine call failed, or
\* no namespace the engine held when the operation took rpc_lock has every
\* identifier given.
LookupFails(f) ==
    \/ \E e \in f.efail : e.name = "nvmf_get_subsystems"
    \/ \A n \in EngGetNamespaces(f.snapE, f.nqn) : ~NsMatches(n, f.nsid, f.uuid)

\* C34: a lookup that finds a namespace finds one of the engine that has
\* every identifier given; with no identifier the operation returns ENODEV
\* without an engine call; when the lookup fails, or the two identifiers
\* given belong to no single namespace, the operation returns ENODEV with
\* the engine and the record as they were.
C34_Lookup ==
    \A t \in Threads :
        LET f == fr[t] IN
        f.op \in LookupOps
            => /\ ( /\ ev.t = t /\ ev.kind = "eng" /\ ev.name = "nvmf_get_subsystems"
                    /\ f.status = NoStatus )
                     => \E n \in EngGetNamespaces(eng, f.nqn) :
                            /\ NsMatches(n, f.nsid, f.uuid)
                            /\ f.fnsid = n.nsid /\ f.fuuid = n.uuid /\ f.bdev = n.bdev
               /\ (pc[t] = "done" /\ f.nsid <= 0 /\ f.uuid = "")
                     => f.status = ENODEV /\ f.ncalls = 0 /\ ~f.wrote
               /\ (pc[t] = "done" /\ (f.nsid > 0 \/ f.uuid # "") /\ LookupFails(f))
                     => /\ f.status = ENODEV /\ f.ncalls = 1
                        /\ eng = f.snapE /\ omap = f.snapO

\* C34, the case: a change of group given NSID 1 and the UUID of namespace 2,
\* both namespaces being in the engine, has returned ENODEV without a failed
\* engine call.
C34_Witness ==
    /\ pc["w1"] = "done"
    /\ fr["w1"].op = "namespace_change_load_balancing_group"
    /\ fr["w1"].nsid = 1 /\ fr["w1"].uuid = "u1"
    /\ \E n \in EngGetNamespaces(eng, "nqn1") : n.nsid = 1 /\ n.uuid # "u1"
    /\ \E n \in EngGetNamespaces(eng, "nqn1") : n.nsid = 2 /\ n.uuid = "u1"
    /\ fr["w1"].efail = {}
    /\ fr["w1"].status = ENODEV

\* The entries of the persisted record, of any kind but the subsystem's own,
\* that refer to subsystem nqn.
EntriesOf(nqn) ==
    [ns   |-> {n \in omap.ns : n.nqn = nqn},
     qos  |-> {q \in omap.qos : q.nqn = nqn},
     host |-> {h \in omap.host : h[1] = nqn},
     lsnr |-> {l \in omap.lsnr : l.nqn = nqn}]

\* C35: when a live delete-subsystem returns success, the persisted record
\* holds no namespace, namespace-QoS, host or listener entry of the deleted
\* subsystem.
C35_DeleteLeavesNoEntry ==
    \A t \in Threads :
        ( /\ pc[t] = "done" /\ fr[t].op = "delete_subsystem"
          /\ fr[t].ctx /\ fr[t].status = 0 )
            => EntriesOf(fr[t].nqn) = [ns |-> {}, qos |-> {}, host |-> {}, lsnr |-> {}]

\* C36: every namespace entry of the persisted record stores, as its nsid
\* field, the NSID it is keyed by (the one the engine assigned), so every
\* NSID that get_subsystem_namespaces returns is one of a namespace key.
C36_StoredNsidIsKey ==
    /\ \A n \in omap.ns : n.nsid = n.key
    /\ \A nqn \in SubNqns :
           \A i \in 1 .. Len(get_subsystem_namespaces(nqn)) :
               StateNamespaceEntry(nqn, get_subsystem_namespaces(nqn)[i]) # <<>>

\* The QoS entries record st holds for the namespace keyed (nqn, nsid).
QosEntries(st, nqn, nsid) == {q \in st.qos : q.nqn = nqn /\ q.key = nsid}

\* C37: when a live change of load-balancing group returns success, the
\* record holds the QoS entry of the namespace that it held when the
\* operation began.
C37_ChangeGroupKeepsQos ==
    \A t \in Threads :
        LET f == fr[t] IN
        ( /\ pc[t] = "done" /\ f.op = "namespace_change_load_balancing_group"
          /\ f.ctx /\ f.status = 0 )
            => QosEntries(omap, f.nqn, f.fnsid) = QosEntries(f.snapO, f.nqn, f.fnsid)

\* C38: a change of load-balancing group that is rejected for a group id
\* above MAX_ANA_GROUPS leaves the engine and the persisted record as they
\* were when the operation began.
C38_GroupRejectedUnchanged ==
    \A t \in Threads :
        LET f == fr[t] IN
        ( /\ pc[t] = "done" /\ f.op = "namespace_change_load_balancing_group"
          /\ f.grp > MAX_ANA_GROUPS
          /\ \E e \in f.efail : e.name = "create_namespace" )
            => eng = f.snapE /\ omap = f.snapO

\* The resize of t has looked its namespace up and has not yet made its
\* bdev_rbd_resize call.
ResizePending(t) ==
    /\ fr[t].op = "namespace_resize"
    /\ fr[t].bdev # NoBdev
    /\ pc[t] \in {"rs_rel", "rb_acq", "rb_resize"}

\* C39: when a resize makes its bdev_rbd_resize call, the device is the
\* backing device of the namespace its lookup resolved; and between the
\* lookup and that call no other worker makes a step of a delete-namespace
\* or of a change of load-balancing group.
C39_ResizeAtomic ==
    \A t \in Threads :
        /\ (ev.t = t /\ ev.kind = "eng" /\ ev.name = "bdev_rbd_resize")
              => \E n \in EngGetNamespaces(eng, fr[t].nqn) :
                     n.nsid = fr[t].fnsid /\ n.bdev = fr[t].bdev
        /\ ResizePending(t)
              => \A u \in Threads \ {t} :
                     ~( /\ MutatingStepOf(u)
                        /\ fr[u].fn \in {"namespace_delete",
                                         "namespace_change_load_balancing_group"} )

\* C40: in a live execution in which no engine call and no store write has
\* failed, whenever no operation is in progress every device of the engine
\* backs exactly one namespace and every namespace has its device: no
\* device outlives its namespace and none is deleted from under it.
C40_NoOrphanedDevices ==
    (ev.clean /\ \A t \in Threads : pc[t] = "idle")
        => /\ \A b \in eng.bdevs : Cardinality({n \in eng.ns : n.bdev = b.name}) = 1
           /\ \A n \in eng.ns : n.bdev \in EngBdevNames(eng)
====
